---- MODULE Spec2Model ----
(***************************************************************************)
(* A model of the rlok tree-walking interpreter (rlok_lib): the values,    *)
(* the environment chain, the evaluator of expressions and statements,     *)
(* the scanner and the recursive-descent parser, and the interpreter's     *)
(* start / run / run_prompt, which scan, parse and execute a file or the   *)
(* lines read at the prompt.                                               *)
(*                                                                         *)
(* Numbers are the f32 values that are integers; the model's programs use  *)
(* only operations that are exact on them.  Source spans only feed the     *)
(* text of diagnostics and are left out of the AST.                        *)
(***************************************************************************)
EXTENDS Integers, Sequences, FiniteSets, TLC

\* ------------------------------------------------------------------ bounds
\* The largest number literal of the generated programs.
MaxNum == 2
\* The most iterations of one while statement the model follows.
MaxIter == 4
\* The most parameters and arguments of the generated functions and calls.
MaxArgs == 2
\* The latest reading of the clock, in seconds since the Unix epoch.
MaxClock == 1
\* The most lines a session at the prompt runs.
MaxLines == 2

\* ------------------------------------------------------------------ values
\* lit.rs: LitType
\* Float(f32): the number v / d in lowest terms with d > 0; Float(n) is the
\* integer n
Float(n) == [tag |-> "Float", v |-> n, d |-> 1]
Str(s) == [tag |-> "Str", v |-> s]
Bool(b) == [tag |-> "Bool", v |-> b]
Nil == [tag |-> "Nil"]
\* lox_callable.rs: LoxFunction::new / Clock::new
LoxFunction(callee, declaration) ==
    [tag |-> "Callable", kind |-> "Function", callee |-> callee,
     declaration |-> declaration]
Clock == [tag |-> "Callable", kind |-> "Clock", callee |-> "clock"]

\* Option<LitType>: None, and Some(v) is v itself
None == [tag |-> "None"]

\* Result<T>
Ok(v) == [ok |-> TRUE, val |-> v]
Err(e) == [ok |-> FALSE, err |-> e]

\* error_handler.rs: RuntimeError (the Expr/Token/span payloads, which only
\* feed the message text, are left out)
RuntimeError_Return(value) == [kind |-> "Return", value |-> value]
IncorrectArgumentCount(expected, got) ==
    [kind |-> "IncorrectArgumentCount", expected |-> expected, got |-> got]
UndefinedVariable(name) == [kind |-> "UndefinedVariable", name |-> name]
RuntimeError(kind) == [kind |-> kind]

\* ---------------------------------------------------------------------- AST
\* expression.rs: Expr
Literal(value) == [type |-> "Literal", value |-> value]
Grouping(expression) == [type |-> "Grouping", expression |-> expression]
Unary(operator, right) == [type |-> "Unary", operator |-> operator, right |-> right]
Binary(left, operator, right) ==
    [type |-> "Binary", left |-> left, operator |-> operator, right |-> right]
Variable(name) == [type |-> "Variable", name |-> name]
Assign(name, value) == [type |-> "Assign", name |-> name, value |-> value]
Logcial(left, operator, right) ==
    [type |-> "Logcial", left |-> left, operator |-> operator, right |-> right]
Call(callee, arguments) ==
    [type |-> "Call", callee |-> callee, arguments |-> arguments]

\* statement.rs: Statement
Expression(expression) == [type |-> "Expression", expression |-> expression]
PrintStmt(expression) == [type |-> "Print", expression |-> expression]
Var(name, expression) == [type |-> "Var", name |-> name, expression |-> expression]
Block(statements) == [type |-> "Block", statements |-> statements]
NoElse == [type |-> "NoElse"]
If(condition, then_branch, else_branch) ==
    [type |-> "If", condition |-> condition, then_branch |-> then_branch,
     else_branch |-> else_branch]
While(condition, body) == [type |-> "While", condition |-> condition, body |-> body]
Function(name, params, body) ==
    [type |-> "Function", name |-> name, params |-> params, body |-> body]
Return(value) == [type |-> "Return", value |-> value]

\* -------------------------------------------------------------- environment
\* environment.rs: an Environment owns its enclosing Environment (a Box), so
\* a chain is a sequence of scopes, the innermost first; a scope is the
\* HashMap values, a function from the names it binds.
EmptyScope == [n \in {} |-> Nil]

\* Environment::new: enclosing is a chain, or << >> for None
Environment_new(enclosing) == <<EmptyScope>> \o enclosing

define_keep_existing(env, name, value) ==
    [env EXCEPT ![1] = [n \in (DOMAIN env[1]) \cup {name} |->
                            IF n \in DOMAIN env[1] THEN env[1][n] ELSE value]]

\* Environment::define
define(env, name, value) ==
    [env EXCEPT ![1] = [n \in (DOMAIN env[1]) \cup {name} |->
                            IF n = name THEN value ELSE env[1][n]]]

\* Environment::get
RECURSIVE get(_, _)
get(env, name) ==
    IF name \in DOMAIN env[1] THEN Ok(env[1][name])
    ELSE IF Len(env) > 1 THEN get(Tail(env), name)
    ELSE Err(UndefinedVariable(name))

assign_innermost_only(env, name, value) ==
    IF name \in DOMAIN env[1]
    THEN [res |-> Ok(None), env |-> [env EXCEPT ![1][name] = value]]
    ELSE [res |-> Err(UndefinedVariable(name)), env |-> env]

assign_or_define(env, name, value) ==
    [res |-> Ok(None),
     env |-> IF \E i \in DOMAIN env : name \in DOMAIN env[i]
             THEN LET i == CHOOSE i \in DOMAIN env :
                              /\ name \in DOMAIN env[i]
                              /\ \A j \in 1 .. i - 1 : name \notin DOMAIN env[j]
                  IN [env EXCEPT ![i][name] = value]
             ELSE [env EXCEPT ![Len(env)] =
                      [n \in (DOMAIN env[Len(env)]) \cup {name} |->
                          IF n = name THEN value ELSE env[Len(env)][n]]]]

\* Environment::assign: the result and the chain after it
RECURSIVE assign(_, _, _)
assign(env, name, value) ==
    IF name \in DOMAIN env[1]
    THEN [res |-> Ok(None), env |-> [env EXCEPT ![1][name] = value]]
    ELSE IF Len(env) > 1
    THEN LET enc == assign(Tail(env), name, value)
         IN [res |-> enc.res, env |-> <<env[1]>> \o enc.env]
    ELSE [res |-> Err(UndefinedVariable(name)), env |-> env]

\* ---------------------------------------------------------------- evaluator
\* The evaluator works on inter, the part of the Interpreter that evaluation
\* reads and writes: [environment, stdout, now], where stdout is the lines
\* written by println! and now is the reading SystemTime::now() gives, in
\* seconds since the Unix epoch.  Every function returns the interpreter
\* after it and its Result.
R(inter, res) == [inter |-> inter, res |-> res]

println(inter, line) == [inter EXCEPT !.stdout = Append(@, line)]

RECURSIVE GCD(_, _)
GCD(a, b) == IF b = 0 THEN a ELSE GCD(b, a % b)

\* the f32 n / d, for d # 0
Ratio(n, d) ==
    LET g == GCD(IF n < 0 THEN -n ELSE n, IF d < 0 THEN -d ELSE d)
    IN [tag |-> "Float", v |-> (IF d < 0 THEN -n ELSE n) \div g,
        d |-> (IF d < 0 THEN -d ELSE d) \div g]

\* l / r for r # 0
Quotient(l, r) == Ratio(l.v * r.d, l.d * r.v)

\* the sign of l - r
Compare(l, r) == l.v * r.d - r.v * l.d

\* Interpreter::print_lit with the Display forms of lit.rs / lox_callable.rs
print_lit(lit) ==
    CASE lit.tag = "Float" ->
            \* a number that is no integer is written as its ratio
            IF lit.d = 1 THEN ToString(lit.v)
            ELSE ToString(lit.v) \o "/" \o ToString(lit.d)
      [] lit.tag = "Str" -> lit.v
      [] lit.tag = "Bool" -> IF lit.v THEN "true" ELSE "false"
      [] lit.tag = "Callable" -> "<fun " \o lit.callee \o ">"
      [] lit.tag = "Nil" -> "nil"

\* Interpreter::is_truthy
is_truthy(lit) ==
    CASE lit.tag = "Float" -> lit.v > 0
      [] lit.tag = "Str" -> lit.v # ""
      [] lit.tag = "Bool" -> lit.v
      [] lit.tag = "Nil" -> FALSE
      [] OTHER -> FALSE

\* Interpreter::binary_expr, the match on the operator for two Floats
numeric_binary(operator, l, r) ==
    CASE operator = "Plus" -> Ok(Ratio(l.v * r.d + r.v * l.d, l.d * r.d))
      [] operator = "Minus" -> Ok(Ratio(l.v * r.d - r.v * l.d, l.d * r.d))
      [] operator = "Slash" ->
            IF r.v = 0 THEN Err(RuntimeError("DivideByZero"))
            ELSE Ok(Quotient(l, r))
      [] operator = "Star" -> Ok(Ratio(l.v * r.v, l.d * r.d))
      [] operator = "Less" -> Ok(Bool(Compare(l, r) < 0))
      [] operator = "LessEqual" -> Ok(Bool(Compare(l, r) <= 0))
      [] operator = "Greater" -> Ok(Bool(Compare(l, r) > 0))
      [] operator = "GreaterEqual" -> Ok(Bool(Compare(l, r) >= 0))
      [] operator = "EqualEqual" -> Ok(Bool(Compare(l, r) = 0))
      [] OTHER -> Err(RuntimeError("InvalidNumerical"))

\* Interpreter::binary_expr, the match on the operator for two Strs
string_binary(operator, l, r) ==
    CASE operator = "Plus" -> Ok(Str(l \o r))
      [] OTHER -> Err(RuntimeError("InvalidStringConcat"))

\* a LoxFunction::arity that counts one parameter too many
LoxFunction_arity_plus_one(func) ==
    IF func.declaration.type = "Function"
    THEN Len(func.declaration.params) + 1 ELSE 0

\* LoxFunction::arity
LoxFunction_arity(func) ==
    IF func.declaration.type = "Function" THEN Len(func.declaration.params) ELSE 0

\* Clock::arity
Clock_arity == 0

\* Clock::call
Clock_call(inter) ==
    IF inter.now >= 0 THEN R(inter, Ok(Float(inter.now)))
    ELSE R(inter, Err(RuntimeError("NativeFunctionError")))

RECURSIVE evaluate_expr(_, _)
RECURSIVE evaluate_statement(_, _)
RECURSIVE evaluate_arguments(_, _, _, _)
RECURSIVE define_params(_, _, _, _, _)
RECURSIVE block_loop(_, _, _)
RECURSIVE while_loop(_, _, _, _)

\* Interpreter::literal_expr
literal_expr(inter, expr) ==
    IF expr.value # None THEN R(inter, Ok(expr.value))
    ELSE R(inter, Err(RuntimeError("InvalidLiteral")))

\* Interpreter::grouping_expr
grouping_expr(inter, expr) == evaluate_expr(inter, expr.expression)

\* Interpreter::unary_expr
unary_expr(inter, expr) ==
    LET r == evaluate_expr(inter, expr.right)
        right == r.res.val
    IN IF ~r.res.ok THEN r
       ELSE CASE expr.operator = "Minus" ->
                   IF right.tag = "Float"
                   THEN R(r.inter, Ok(Ratio(-right.v, right.d)))
                   ELSE R(r.inter, Err(RuntimeError("InvalidUnary")))
              [] expr.operator = "Bang" ->
                   CASE right.tag = "Bool" -> R(r.inter, Ok(Bool(~right.v)))
                     [] right.tag = "Nil" -> R(r.inter, Ok(Bool(TRUE)))
                     [] OTHER -> R(r.inter, Err(RuntimeError("RighthandBoolorNil")))
              [] OTHER -> R(r.inter, Err(RuntimeError("UnaryExpects")))

\* Interpreter::binary_expr
binary_expr(inter, expr) ==
    LET l == evaluate_expr(inter, expr.left)
        r == evaluate_expr(l.inter, expr.right)
        left == l.res.val
        right == r.res.val
    IN IF ~l.res.ok THEN l
       ELSE IF ~r.res.ok THEN r
       ELSE IF right.tag = "Float" /\ left.tag = "Float"
       THEN R(r.inter, numeric_binary(expr.operator, left, right))
       ELSE IF right.tag = "Str" /\ left.tag = "Str"
       THEN R(r.inter, string_binary(expr.operator, left.v, right.v))
       ELSE R(r.inter, Err(RuntimeError("BinaryTypeMismatch")))

\* Interpreter::var_expr
var_expr(inter, expr) == R(inter, get(inter.environment, expr.name))

\* Interpreter::logical_expr
logical_expr(inter, left, operator, right) ==
    LET l == evaluate_expr(inter, left)
    IN IF ~l.res.ok THEN l
       ELSE IF operator = "OR"
       THEN IF is_truthy(l.res.val) THEN l ELSE evaluate_expr(l.inter, right)
       ELSE IF ~is_truthy(l.res.val) THEN l ELSE evaluate_expr(l.inter, right)

\* Interpreter::assign_expr
assign_expr(inter, name, value) ==
    IF value.type = "Literal"
    THEN IF value.value # None
         THEN LET a == assign(inter.environment, name, value.value)
              IN IF a.res.ok
                 THEN R([inter EXCEPT !.environment = a.env], Ok(value.value))
                 ELSE R(inter, a.res)
         ELSE R(inter, Err(RuntimeError("InvalidAssignmentTarget")))
    ELSE LET v == evaluate_expr(inter, value)
             a == assign(v.inter.environment, name, v.res.val)
         IN IF ~v.res.ok THEN v
            ELSE IF a.res.ok
            THEN R([v.inter EXCEPT !.environment = a.env], Ok(v.res.val))
            ELSE R(v.inter, a.res)

\* Interpreter::block_statement: the for loop over the statements, from the
\* i-th on
block_loop(inter, statements, i) ==
    IF i > Len(statements) THEN R(inter, Ok(None))
    ELSE LET s == evaluate_statement(inter, statements[i])
         IN IF ~s.res.ok THEN s ELSE block_loop(s.inter, statements, i + 1)

\* Interpreter::block_statement
block_statement(inter, statements, environment) ==
    block_loop([inter EXCEPT !.environment = environment], statements, 1)

\* LoxFunction::call: the loop over the parameters, from the index-th on;
\* environment is the local of call that the parameters are defined in
define_params(inter, environment, params, arguments, index) ==
    IF index > Len(params)
    THEN [inter |-> inter, environment |-> environment, res |-> Ok(None)]
    ELSE LET a == evaluate_expr(inter, arguments[index])
         IN IF ~a.res.ok
            THEN [inter |-> a.inter, environment |-> environment, res |-> a.res]
            ELSE define_params(a.inter, define(environment, params[index], a.res.val),
                               params, arguments, index + 1)

\* LoxFunction::call
LoxFunction_call(inter, func, arguments) ==
    LET environment == Environment_new(inter.environment)
        declaration == func.declaration
        p == define_params(inter, environment, declaration.params, arguments, 1)
        b == block_statement(p.inter, declaration.body, p.environment)
    IN IF declaration.type = "Function"
       THEN IF ~p.res.ok THEN R(p.inter, p.res)
            ELSE IF ~b.res.ok THEN b
            ELSE IF b.res.val # None THEN b
            ELSE R(println(b.inter, "Returning nill"), Ok(Nil))
       ELSE IF declaration.type = "Return"
       THEN evaluate_expr(inter, declaration.value)
       ELSE R(println(inter, "Returning nill"), Ok(Nil))

\* Interpreter::call_expr: the for loop over the arguments, from the i-th on;
\* args is the Vec of the values so far
evaluate_arguments(inter, arguments, i, args) ==
    IF i > Len(arguments) THEN R(inter, Ok(args))
    ELSE LET a == evaluate_expr(inter, arguments[i])
         IN IF ~a.res.ok THEN a
            ELSE evaluate_arguments(a.inter, arguments, i + 1, Append(args, a.res.val))

\* Interpreter::call_expr
call_expr(inter, callee, arguments) ==
    LET c == evaluate_expr(inter, callee)
        a == evaluate_arguments(c.inter, arguments, 1, <<>>)
        call == c.res.val
    IN IF ~c.res.ok THEN c
       ELSE IF ~a.res.ok THEN a
       ELSE IF call.tag = "Callable"
       THEN IF call.kind = "Function"
            THEN IF Len(arguments) # LoxFunction_arity(call)
                 THEN R(a.inter, Err(IncorrectArgumentCount(LoxFunction_arity(call),
                                                            Len(arguments))))
                 ELSE LoxFunction_call(a.inter, call, arguments)
            ELSE IF Len(arguments) # Clock_arity
                 THEN R(a.inter, Err(IncorrectArgumentCount(Clock_arity, Len(arguments))))
                 ELSE Clock_call(a.inter)
       ELSE R(a.inter, Err(RuntimeError("NotCallable")))

\* Interpreter::evaluate_expr
evaluate_expr(inter, expr) ==
    CASE expr.type = "Binary" -> binary_expr(inter, expr)
      [] expr.type = "Grouping" -> grouping_expr(inter, expr)
      [] expr.type = "Unary" -> unary_expr(inter, expr)
      [] expr.type = "Literal" -> literal_expr(inter, expr)
      [] expr.type = "Variable" -> var_expr(inter, expr)
      [] expr.type = "Assign" -> assign_expr(inter, expr.name, expr.value)
      [] expr.type = "Logcial" ->
            logical_expr(inter, expr.left, expr.operator, expr.right)
      [] expr.type = "Call" -> call_expr(inter, expr.callee, expr.arguments)

\* Interpreter::while_statement; n counts the iterations made
while_loop(inter, condition, body, n) ==
    LET c == evaluate_expr(inter, condition)
        b == evaluate_statement(c.inter, body)
    IN IF ~c.res.ok THEN c
       ELSE IF ~is_truthy(c.res.val) THEN R(c.inter, Ok(None))
       ELSE IF n >= MaxIter THEN R(c.inter, Err(RuntimeError("MaxIter")))
       ELSE IF ~b.res.ok THEN b
       ELSE IF b.res.val # None THEN b
       ELSE while_loop(b.inter, condition, body, n + 1)

while_statement(inter, condition, body) == while_loop(inter, condition, body, 0)

\* Interpreter::if_statement
if_statement(inter, condition, then_condition, else_condition) ==
    LET c == evaluate_expr(inter, condition)
    IN IF ~c.res.ok THEN c
       ELSE IF is_truthy(c.res.val) THEN evaluate_statement(c.inter, then_condition)
       ELSE IF else_condition # NoElse THEN evaluate_statement(c.inter, else_condition)
       ELSE R(c.inter, Ok(None))

\* Interpreter::var_statement
var_statement(inter, stmt) ==
    LET v == evaluate_expr(inter, stmt.expression)
    IN IF ~v.res.ok THEN v
       ELSE R([v.inter EXCEPT !.environment = define(@, stmt.name, v.res.val)],
              Ok(None))

\* Interpreter::function_statement
function_statement(inter, name, params, body) ==
    R([inter EXCEPT !.environment =
           define(@, name, LoxFunction(name, Function(name, params, body)))],
      Ok(None))

\* Interpreter::return_statement
return_statement(inter, value) ==
    LET v == evaluate_expr(inter, value)
    IN IF ~v.res.ok THEN v ELSE R(v.inter, Err(RuntimeError_Return(v.res.val)))

\* Interpreter::evaluate_statement
evaluate_statement(inter, stmt) ==
    CASE stmt.type = "Print" ->
            LET v == evaluate_expr(inter, stmt.expression)
            IN IF ~v.res.ok THEN v
               ELSE R(println(v.inter, print_lit(v.res.val)), Ok(None))
      [] stmt.type = "Expression" -> evaluate_expr(inter, stmt.expression)
      [] stmt.type = "Var" -> var_statement(inter, stmt)
      [] stmt.type = "Block" ->
            block_statement(inter, stmt.statements,
                            Environment_new(inter.environment))
      [] stmt.type = "If" ->
            if_statement(inter, stmt.condition, stmt.then_branch, stmt.else_branch)
      [] stmt.type = "While" -> while_statement(inter, stmt.condition, stmt.body)
      [] stmt.type = "Function" ->
            function_statement(inter, stmt.name, stmt.params, stmt.body)
      [] stmt.type = "Return" -> return_statement(inter, stmt.value)


\* ------------------------------------------------------------------ scanner
\* scanner.rs: the Scanner is its source, a string, start and current, the
\* positions in it counted from 0 as in the code, and its tokens.  The line,
\* which only feeds messages, is left out.  The sources are ASCII, so that a
\* byte position is a character position.

\* tokens.rs: Token (the literal is the String of Some(String), and "" for
\* None)
Token(ty, lexeme, literal) == [ty |-> ty, lexeme |-> lexeme, literal |-> literal]

\* error_handler.rs: ScannerError, ParserError
ScannerError(kind) == [kind |-> kind]
ParserError(kind) == [kind |-> kind]

\* Scanner::build: the keyword table
keywords ==
    ("and" :> "AND") @@ ("class" :> "CLASS") @@ ("else" :> "ELSE")
      @@ ("false" :> "FALSE") @@ ("for" :> "FOR") @@ ("fun" :> "FUN")
      @@ ("if" :> "IF") @@ ("nil" :> "NIL") @@ ("or" :> "OR")
      @@ ("print" :> "PRINT") @@ ("return" :> "RETURN") @@ ("super" :> "SUPER")
      @@ ("this" :> "THIS") @@ ("true" :> "TRUE") @@ ("var" :> "VAR")
      @@ ("while" :> "WHILE")

\* Scanner::build
Scanner_build(source) ==
    [source |-> source, start |-> 0, current |-> 0, tokens |-> << >>]

\* source.chars().nth(i)
nth(source, i) == SubSeq(source, i + 1, i + 1)

\* the '\0' that peek and peek_next give at the end of the source
NUL == "\\0"

Scanner_is_end(scanner) == scanner.current >= Len(scanner.source)

\* Scanner::advance: the scanner after it (its character is nth of the
\* current of the scanner before)
Scanner_advance(scanner) == [scanner EXCEPT !.current = @ + 1]

\* &self.source[self.start..self.current]
text(scanner) == SubSeq(scanner.source, scanner.start + 1, scanner.current)

add_token(scanner, ty) ==
    [scanner EXCEPT !.tokens = Append(@, Token(ty, text(scanner), ""))]

add_token_val(scanner, ty, value) ==
    [scanner EXCEPT !.tokens = Append(@, Token(ty, text(scanner), value))]

\* match_char that reports the match and leaves the character unread
match_char_unread(scanner, expected) ==
    IF Scanner_is_end(scanner) THEN [scanner |-> scanner, matched |-> FALSE]
    ELSE IF nth(scanner.source, scanner.current) # expected
    THEN [scanner |-> scanner, matched |-> FALSE]
    ELSE [scanner |-> scanner, matched |-> TRUE]

match_char(scanner, expected) ==
    IF Scanner_is_end(scanner) THEN [scanner |-> scanner, matched |-> FALSE]
    ELSE IF nth(scanner.source, scanner.current) # expected
    THEN [scanner |-> scanner, matched |-> FALSE]
    ELSE [scanner |-> Scanner_advance(scanner), matched |-> TRUE]

Scanner_peek(scanner) ==
    IF Scanner_is_end(scanner) THEN NUL
    ELSE nth(scanner.source, scanner.current)

peek_next(scanner) ==
    IF scanner.current + 1 >= Len(scanner.source) THEN NUL
    ELSE nth(scanner.source, scanner.current + 1)

is_digit(c) == c \in {"0", "1", "2", "3", "4", "5", "6", "7", "8", "9"}

is_alpha(c) ==
    c \in {"a", "b", "c", "d", "e", "f", "g", "h", "i", "j", "k", "l", "m",
           "n", "o", "p", "q", "r", "s", "t", "u", "v", "w", "x", "y", "z",
           "A", "B", "C", "D", "E", "F", "G", "H", "I", "J", "K", "L", "M",
           "N", "O", "P", "Q", "R", "S", "T", "U", "V", "W", "X", "Y", "Z",
           "_"}

is_alpha_numeric(c) == is_alpha(c) \/ is_digit(c)

RECURSIVE string_loop(_), digits(_), identifier_loop(_), comment(_),
          scan_loop(_)

\* Scanner::string: the while loop
string_loop(scanner) ==
    IF Scanner_peek(scanner) # "\"" /\ ~Scanner_is_end(scanner)
    THEN string_loop(Scanner_advance(scanner))
    ELSE scanner

\* Scanner::string
string(scanner) ==
    \* the scanner after the loop, then after the closing quote
    LET closing == string_loop(scanner)
        closed == Scanner_advance(closing)
        value == SubSeq(closed.source, closed.start + 2, closed.current - 1)
    IN IF Scanner_is_end(closing) THEN Err(ScannerError("StringError"))
       ELSE Ok(add_token_val(closed, "StringLit", value))

\* Scanner::number: `while Self::is_digit(self.peek()) { self.advance(); }`
digits(scanner) ==
    IF is_digit(Scanner_peek(scanner)) THEN digits(Scanner_advance(scanner))
    ELSE scanner

\* Scanner::number
number(scanner) ==
    LET whole == digits(scanner)
        all == IF Scanner_peek(whole) = "." /\ is_digit(peek_next(whole))
               THEN digits(Scanner_advance(whole))
               ELSE whole
    IN add_token_val(all, "NumberLit", text(all))

\* Scanner::identifier: the while loop
identifier_loop(scanner) ==
    IF is_alpha_numeric(Scanner_peek(scanner))
    THEN identifier_loop(Scanner_advance(scanner))
    ELSE scanner

\* Scanner::identifier
identifier(scanner) ==
    LET name == identifier_loop(scanner)
        value == text(name)
    IN IF value \in DOMAIN keywords THEN add_token(name, keywords[value])
       ELSE add_token(name, "Ident")

\* Scanner::scan_token, the arm of `//`: the while loop
comment(scanner) ==
    IF Scanner_peek(scanner) # "\n" /\ ~Scanner_is_end(scanner)
    THEN comment(Scanner_advance(scanner))
    ELSE scanner

\* Scanner::scan_token: Ok(the scanner after it) or the error; c is the
\* character that advance returns
scan_token(scanner) ==
    LET c == nth(scanner.source, scanner.current)
        s == Scanner_advance(scanner)
        equal == match_char(s, "=")
        slash == match_char(s, "/")
    IN CASE c = "(" -> Ok(add_token(s, "LeftParen"))
         [] c = ")" -> Ok(add_token(s, "RightParen"))
         [] c = "{" -> Ok(add_token(s, "LeftBrace"))
         [] c = "}" -> Ok(add_token(s, "RightBrace"))
         [] c = "," -> Ok(add_token(s, "Comma"))
         [] c = "." -> Ok(add_token(s, "Dot"))
         [] c = "-" -> Ok(add_token(s, "Minus"))
         [] c = "+" -> Ok(add_token(s, "Plus"))
         [] c = ";" -> Ok(add_token(s, "Semicolon"))
         [] c = "*" -> Ok(add_token(s, "Star"))
         [] c = "!" ->
               Ok(add_token(equal.scanner,
                            IF equal.matched THEN "BangEqual" ELSE "Bang"))
         [] c = "=" ->
               Ok(add_token(equal.scanner,
                            IF equal.matched THEN "EqualEqual" ELSE "Equal"))
         [] c = "<" ->
               Ok(add_token(equal.scanner,
                            IF equal.matched THEN "LessEqual" ELSE "Less"))
         [] c = ">" ->
               Ok(add_token(equal.scanner,
                            IF equal.matched THEN "GreaterEqual" ELSE "Greater"))
         [] c = "/" ->
               IF slash.matched THEN Ok(comment(slash.scanner))
               ELSE Ok(add_token(s, "Slash"))
         [] c = "\"" -> string(s)
         [] c \in {" ", "\r", "\t"} -> Ok(s)
         [] c = "\n" -> Ok(s)
         [] OTHER ->
               IF is_digit(c) THEN Ok(number(s))
               ELSE IF is_alpha(c) THEN Ok(identifier(s))
               ELSE Err(ScannerError("UnexpectedTokenError"))

\* Scanner::scan_tokens: one turn of the while loop, `self.start =
\* self.current; self.scan_token()?;`
scan_step(scanner) == scan_token([scanner EXCEPT !.start = scanner.current])

\* Scanner::scan_tokens: the push of the EOF token
scan_end(scanner) ==
    [scanner EXCEPT !.tokens = Append(@, Token("EOF", "", ""))]

\* Scanner::scan_tokens: the while loop, then the EOF token; Ok(the scanner
\* after it), whose tokens are returned, or the error
scan_loop(scanner) ==
    IF Scanner_is_end(scanner) THEN Ok(scan_end(scanner))
    ELSE \* the `?` of scan_token
         LET t == scan_step(scanner)
         IN IF ~t.ok THEN t ELSE scan_loop(t.val)

\* Scanner::build(source).scan_tokens(): Ok(tokens) or the error
scan_tokens(source) ==
    LET scanned == scan_loop(Scanner_build(source))
    IN IF scanned.ok THEN Ok(scanned.val.tokens) ELSE scanned

\* The lexeme of each operator token, as scan_token cuts it
symbols ==
    ("(" :> "LeftParen") @@ (")" :> "RightParen") @@ ("{" :> "LeftBrace")
      @@ ("}" :> "RightBrace") @@ ("," :> "Comma") @@ ("." :> "Dot")
      @@ ("-" :> "Minus") @@ ("+" :> "Plus") @@ (";" :> "Semicolon")
      @@ ("*" :> "Star") @@ ("/" :> "Slash")
      @@ ("!" :> "Bang") @@ ("!=" :> "BangEqual")
      @@ ("=" :> "Equal") @@ ("==" :> "EqualEqual")
      @@ ("<" :> "Less") @@ ("<=" :> "LessEqual")
      @@ (">" :> "Greater") @@ (">=" :> "GreaterEqual")

\* The literals of the sources.  Nums are the numbers and Strs the strings
\* of the literal values the programs are generated from; Limits, the limits
\* of the counting loops, has one number more, so that a loop of MaxNum + 1
\* iterations is among them.  A string literal is written Quoted;
\* Unterminated lacks its closing quote.
Nums == 0 .. MaxNum
Limits == 0 .. MaxNum + 1
Strs == {"", "a"}
Quoted(s) == "\"" \o s \o "\""
Unterminated == "\"a"
Identifiers ==
    {"x", "y", "i", "c", "a", "b", "p1", "p2", "p3",
     "add", "f", "g", "show", "set", "clock"}

\* ------------------------------------------------------------------- parser
\* parser.rs: the Parser is its tokens and current, the position of the next
\* token (counted from 1 here).  The tokens hold no white space, so
\* skip_white_space does nothing.  A method returns the parser after it and
\* its Result<Option<..>>: Ok(node), Ok(None) or Err(error).
Parser_new(tokens) == [tokens |-> tokens, current |-> 1]
P(parser, res) == [parser |-> parser, res |-> res]

peek(parser) == parser.tokens[parser.current]
previous(parser) ==
    IF parser.current > 1 THEN parser.tokens[parser.current - 1]
    ELSE parser.tokens[parser.current]
is_end(parser) == peek(parser).ty = "EOF"
check(parser, ty) == IF is_end(parser) THEN FALSE ELSE peek(parser).ty = ty
advance(parser) ==
    IF ~is_end(parser) THEN [parser EXCEPT !.current = @ + 1] ELSE parser
match_type(parser, types) ==
    IF \E ty \in types : check(parser, ty)
    THEN [parser |-> advance(parser), matched |-> TRUE]
    ELSE [parser |-> parser, matched |-> FALSE]
consume(parser, ty) ==
    IF check(parser, ty) THEN P(advance(parser), Ok(peek(parser)))
    ELSE P(parser, Err(ParserError("ConsumeTokenError")))

\* `let x = self.method()?;`: the result of a method, handed to the rest of
\* the body
Then(value, Rest(_)) == Rest(value)

\* str::parse::<f32> of the literal of a NumberLit token: the number its
\* digits write (no numeral of the sources has a fraction)
RECURSIVE decimal(_, _)
decimal(literal, n) ==
    IF literal = "" THEN n
    ELSE decimal(Tail(literal),
                 10 * n + (CHOOSE d \in 0 .. 9 : ToString(d) = Head(literal)))
parse_f32(literal) == decimal(literal, 0)

RECURSIVE declaration(_), function_declaration(_), parameters_loop(_, _),
          var_declaration(_), statement(_), Parser_return_statement(_),
          for_statement(_), Parser_while_statement(_), Parser_if_statement(_),
          Parser_block_loop(_, _), Parser_block_statement(_),
          print_statement(_), expression_statement(_), expression(_),
          assignment(_), logic_or(_), logic_and(_), equality_loop(_, _, _),
          equality(_), comparison_loop(_, _, _), comparison(_), term_loop(_, _, _),
          term(_), factor_loop(_, _, _), factor(_), unary(_), call_loop(_, _),
          call(_), arguments_loop(_, _), finish_call(_, _), primary_rest(_),
          primary(_), parse_loop(_, _)

\* Parser::primary, from the test for an identifier on
primary_rest(parser) ==
    IF check(parser, "Ident")
    THEN P(advance(parser), Ok(Variable(peek(parser).lexeme)))
    ELSE IF is_end(parser) THEN P(parser, Ok(None))
    ELSE P(parser, Err(ParserError("PrimaryTokenError")))

\* Parser::primary
primary(parser) ==
    CASE check(parser, "FALSE") -> P(advance(parser), Ok(Literal(Bool(FALSE))))
      [] check(parser, "TRUE") -> P(advance(parser), Ok(Literal(Bool(TRUE))))
      [] check(parser, "NIL") -> P(advance(parser), Ok(Literal(Nil)))
      [] check(parser, "NumberLit") ->
            P(advance(parser), Ok(Literal(Float(parse_f32(peek(parser).literal)))))
      [] check(parser, "StringLit") ->
            P(advance(parser), Ok(Literal(Str(peek(parser).literal))))
      [] check(parser, "LeftParen") ->
            Then(expression(advance(parser)), LAMBDA e :
                LET c == consume(e.parser, "RightParen")
                IN IF ~e.res.ok THEN e
                   ELSE IF e.res.val = None THEN primary_rest(e.parser)
                   ELSE IF ~c.res.ok THEN c
                   ELSE P(c.parser, Ok(Grouping(e.res.val))))
      [] OTHER -> primary_rest(parser)

\* Parser::finish_call: the loop over the arguments
arguments_loop(parser, arguments) ==
    Then(expression(parser), LAMBDA ex :
        LET args == IF ex.res.val # None THEN Append(arguments, ex.res.val)
                    ELSE arguments
            m == match_type(ex.parser, {"Comma"})
        IN IF ~ex.res.ok THEN ex
           ELSE IF m.matched THEN arguments_loop(m.parser, args)
           ELSE P(m.parser, Ok(args)))

\* Parser::finish_call (no call of the model has 255 arguments)
finish_call(parser, expr) ==
    Then(IF ~check(parser, "RightParen") THEN arguments_loop(parser, << >>)
         ELSE P(parser, Ok(<< >>)),
         LAMBDA a :
             LET paren == consume(a.parser, "RightParen")
             IN IF ~a.res.ok THEN a
                ELSE IF ~paren.res.ok THEN paren
                ELSE P(paren.parser, Ok(Call(expr, a.res.val))))

\* Parser::call: the loop over the argument lists
call_loop(parser, expr) ==
    LET m == match_type(parser, {"LeftParen"})
    IN IF ~m.matched THEN P(parser, Ok(expr))
       ELSE Then(finish_call(m.parser, expr), LAMBDA f :
                IF ~f.res.ok THEN f ELSE call_loop(f.parser, f.res.val))

\* Parser::call
call(parser) ==
    Then(primary(parser), LAMBDA e :
        IF ~e.res.ok \/ e.res.val = None THEN e
        ELSE call_loop(e.parser, e.res.val))

\* Parser::unary: the operand comes first, then the operator
unary(parser) ==
    Then(call(parser), LAMBDA e :
        LET m == match_type(e.parser, {"Bang", "Minus"})
        IN IF ~e.res.ok \/ e.res.val = None THEN e
           ELSE IF ~m.matched THEN e
           ELSE Then(unary(m.parser), LAMBDA right :
                    IF ~right.res.ok THEN right
                    ELSE IF right.res.val = None THEN P(right.parser, e.res)
                    ELSE P(right.parser,
                           Ok(Unary(previous(m.parser).ty, right.res.val)))))

\* Parser::factor: an operand, then the test of the while loop; expr is None
\* at the first operand, and later the expression so far with the operator
\* now matched
factor_loop(parser, expr, operator) ==
    Then(unary(parser), LAMBDA right :
        LET left == IF expr = None \/ right.res.val = None THEN expr
                    ELSE Binary(expr, operator, right.res.val)
            e == IF expr = None THEN right.res.val ELSE left
            m == match_type(right.parser, {"Slash", "Star"})
        IN IF ~right.res.ok THEN right
           ELSE IF e = None THEN right
           ELSE IF ~m.matched THEN P(right.parser, Ok(e))
           ELSE factor_loop(m.parser, e, previous(m.parser).ty))

\* Parser::factor
factor(parser) == factor_loop(parser, None, None)

\* Parser::term: an operand, then the test of the while loop
term_loop(parser, expr, operator) ==
    Then(factor(parser), LAMBDA right :
        LET left == IF expr = None \/ right.res.val = None THEN expr
                    ELSE Binary(expr, operator, right.res.val)
            e == IF expr = None THEN right.res.val ELSE left
            m == match_type(right.parser, {"Minus", "Plus"})
        IN IF ~right.res.ok THEN right
           ELSE IF e = None THEN right
           ELSE IF ~m.matched THEN P(right.parser, Ok(e))
           ELSE term_loop(m.parser, e, previous(m.parser).ty))

\* Parser::term
term(parser) == term_loop(parser, None, None)

\* Parser::comparison: an operand, then the test of the while loop (the
\* list of the operators names LessEqual twice and GreaterEqual not at all)
comparison_loop(parser, expr, operator) ==
    Then(term(parser), LAMBDA right :
        LET left == IF expr = None \/ right.res.val = None THEN expr
                    ELSE Binary(expr, operator, right.res.val)
            e == IF expr = None THEN right.res.val ELSE left
            m == match_type(right.parser, {"Greater", "LessEqual", "Less"})
        IN IF ~right.res.ok THEN right
           ELSE IF e = None THEN right
           ELSE IF ~m.matched THEN P(right.parser, Ok(e))
           ELSE comparison_loop(m.parser, e, previous(m.parser).ty))

\* Parser::comparison
comparison(parser) == comparison_loop(parser, None, None)

\* Parser::equality: an operand, then the test of the while loop, which
\* returns at the first right operand
equality_loop(parser, expr, operator) ==
    Then(comparison(parser), LAMBDA right :
        LET e == IF expr = None THEN right.res.val ELSE expr
            m == match_type(right.parser, {"BangEqual", "EqualEqual"})
        IN IF ~right.res.ok THEN right
           ELSE IF e = None THEN right
           ELSE IF expr # None /\ right.res.val # None
           THEN P(right.parser, Ok(Binary(expr, operator, right.res.val)))
           ELSE IF ~m.matched THEN P(right.parser, Ok(e))
           ELSE equality_loop(m.parser, e, previous(m.parser).ty))

\* Parser::equality
equality(parser) == equality_loop(parser, None, None)

\* Parser::logic_and
logic_and(parser) ==
    Then(equality(parser), LAMBDA e :
        LET m == match_type(e.parser, {"AND"})
        IN IF ~e.res.ok \/ e.res.val = None THEN e
           ELSE IF ~m.matched THEN e
           ELSE Then(equality(m.parser), LAMBDA right :
                    IF ~right.res.ok THEN right
                    ELSE IF right.res.val = None
                    THEN P(right.parser, Err(ParserError("LogicAndMissingRight")))
                    ELSE P(right.parser,
                           Ok(Logcial(e.res.val, previous(m.parser).ty,
                                      right.res.val)))))

\* Parser::logic_or
logic_or(parser) ==
    Then(logic_and(parser), LAMBDA e :
        LET m == match_type(e.parser, {"OR"})
        IN IF ~e.res.ok \/ e.res.val = None THEN e
           ELSE IF ~m.matched THEN e
           ELSE Then(logic_and(m.parser), LAMBDA right :
                    IF ~right.res.ok THEN right
                    ELSE IF right.res.val = None
                    THEN P(right.parser, Err(ParserError("LogicOrMissingRight")))
                    ELSE P(right.parser,
                           Ok(Logcial(e.res.val, previous(m.parser).ty,
                                      right.res.val)))))

\* Parser::assignment: an assignment to a variable consumes the `;` that
\* follows it
assignment(parser) ==
    Then(logic_or(parser), LAMBDA e :
        LET m == match_type(e.parser, {"Equal"})
        IN IF ~e.res.ok \/ e.res.val = None THEN e
           ELSE IF ~m.matched THEN e
           ELSE Then(assignment(m.parser), LAMBDA value :
                    LET after == IF peek(value.parser).ty = "Semicolon"
                                 THEN consume(value.parser, "Semicolon").parser
                                 ELSE value.parser
                    IN IF ~value.res.ok THEN value
                       ELSE IF value.res.val = None
                       THEN P(value.parser,
                              Err(ParserError("InvalidAssignmentTarget")))
                       ELSE IF e.res.val.type = "Variable"
                       THEN P(after, Ok(Assign(e.res.val.name, value.res.val)))
                       ELSE P(value.parser,
                              Err(ParserError("UnexpectedAssignmentTarget")))))

\* Parser::expression
expression(parser) == assignment(parser)

\* Parser::expression_statement: the `;` is consumed if it is there
expression_statement(parser) ==
    Then(expression(parser), LAMBDA e :
        IF ~e.res.ok \/ e.res.val = None THEN e
        ELSE P(consume(e.parser, "Semicolon").parser, Ok(Expression(e.res.val))))

\* Parser::print_statement
print_statement(parser) ==
    Then(expression(parser), LAMBDA e :
        LET c == consume(e.parser, "Semicolon")
        IN IF ~e.res.ok THEN e
           ELSE IF e.res.val = None
           THEN P(e.parser, Err(ParserError("PrintNoExpression")))
           ELSE IF ~c.res.ok THEN c
           ELSE P(c.parser, Ok(PrintStmt(e.res.val))))

\* Parser::block_statement: the while loop, then the `}`
Parser_block_loop(parser, statements) ==
    LET c == consume(parser, "RightBrace")
    IN IF ~check(parser, "RightBrace") /\ ~is_end(parser)
       THEN Then(declaration(parser), LAMBDA dec :
                IF ~dec.res.ok THEN dec
                ELSE Parser_block_loop(dec.parser,
                                       IF dec.res.val = None THEN statements
                                       ELSE Append(statements, dec.res.val)))
       ELSE IF ~c.res.ok THEN c
       ELSE P(c.parser, Ok(statements))

\* Parser::block_statement
Parser_block_statement(parser) == Parser_block_loop(parser, << >>)

\* Parser::if_statement
Parser_if_statement(parser) ==
    Then(expression(consume(parser, "LeftParen").parser), LAMBDA condition :
        IF ~condition.res.ok THEN condition
        ELSE IF condition.res.val = None
        THEN P(condition.parser, Err(ParserError("MissingIfCondition")))
        ELSE Then(statement(consume(condition.parser, "RightParen").parser),
                  LAMBDA then_branch :
            LET m == match_type(then_branch.parser, {"ELSE"})
            IN IF ~then_branch.res.ok THEN then_branch
               ELSE IF then_branch.res.val = None
               THEN P(then_branch.parser, Err(ParserError("MissingThenBranch")))
               ELSE IF ~m.matched
               THEN P(m.parser,
                      Ok(If(condition.res.val, then_branch.res.val, NoElse)))
               ELSE Then(statement(m.parser), LAMBDA els :
                        IF ~els.res.ok THEN els
                        ELSE IF els.res.val = None
                        THEN P(els.parser, Err(ParserError("MissingThenBranch")))
                        ELSE P(els.parser,
                               Ok(If(condition.res.val, then_branch.res.val,
                                     els.res.val))))))

\* Parser::while_statement
Parser_while_statement(parser) ==
    Then(expression(consume(parser, "LeftParen").parser), LAMBDA condition :
        IF ~condition.res.ok THEN condition
        ELSE IF condition.res.val = None
        THEN P(condition.parser, Err(ParserError("WhileMissingCondition")))
        ELSE Then(statement(consume(condition.parser, "RightParen").parser),
                  LAMBDA body :
            IF ~body.res.ok THEN body
            ELSE IF body.res.val = None
            THEN P(body.parser, Err(ParserError("WhileMissingBody")))
            ELSE P(body.parser, Ok(While(condition.res.val, body.res.val)))))

\* Parser::for_statement: the clauses, then the desugaring into a while
for_statement(parser) ==
    LET paren == consume(parser, "LeftParen").parser
        semicolon == match_type(paren, {"Semicolon"})
        var == match_type(paren, {"VAR"})
    IN Then(IF semicolon.matched THEN P(semicolon.parser, Ok(None))
            ELSE IF var.matched THEN var_declaration(var.parser)
            ELSE expression_statement(paren),
            LAMBDA initializer :
       IF ~initializer.res.ok THEN initializer
       ELSE Then(IF ~check(initializer.parser, "Semicolon")
                 THEN expression(initializer.parser)
                 ELSE P(initializer.parser, Ok(None)),
                 LAMBDA condition :
       LET clause == consume(condition.parser, "Semicolon").parser
       IN IF ~condition.res.ok THEN condition
          ELSE Then(IF ~check(clause, "RightParen") THEN expression(clause)
                    ELSE P(clause, Ok(None)),
                    LAMBDA increment :
       IF ~increment.res.ok THEN increment
       ELSE Then(statement(consume(increment.parser, "RightParen").parser),
                 LAMBDA body :
       LET incremented ==
               IF increment.res.val # None /\ body.res.val # None
               THEN Block(<< body.res.val, Expression(increment.res.val) >>)
               ELSE body.res.val
           looped == IF incremented = None THEN incremented
                     ELSE IF condition.res.val # None
                     THEN While(condition.res.val, incremented)
                     ELSE While(Literal(Bool(TRUE)), incremented)
           initialized == IF initializer.res.val # None /\ looped # None
                          THEN Block(<< initializer.res.val, looped >>)
                          ELSE looped
       IN IF ~body.res.ok THEN body
          ELSE P(body.parser, Ok(initialized))))))

\* Parser::return_statement: a `return;` makes no statement
Parser_return_statement(parser) ==
    LET m == match_type(parser, {"Semicolon"})
    IN IF m.matched THEN P(m.parser, Ok(None))
       ELSE Then(expression(parser), LAMBDA value :
                IF ~value.res.ok \/ value.res.val = None THEN value
                ELSE P(consume(value.parser, "Semicolon").parser,
                       Ok(Return(value.res.val))))

\* Parser::statement
statement(parser) ==
    LET next == advance(parser)
    IN CASE check(parser, "LeftBrace") ->
               Then(Parser_block_statement(next), LAMBDA block :
                   IF ~block.res.ok THEN block
                   ELSE P(block.parser, Ok(Block(block.res.val))))
         [] check(parser, "IF") -> Parser_if_statement(next)
         [] check(parser, "PRINT") -> print_statement(next)
         [] check(parser, "RETURN") -> Parser_return_statement(next)
         [] check(parser, "WHILE") -> Parser_while_statement(next)
         [] check(parser, "FOR") -> for_statement(next)
         [] OTHER -> expression_statement(parser)

\* Parser::var_declaration
var_declaration(parser) ==
    LET name == consume(parser, "Ident")
        m == match_type(name.parser, {"Equal"})
    IN IF ~name.res.ok THEN name
       ELSE Then(IF m.matched THEN expression(m.parser)
                 ELSE P(name.parser, Ok(Literal(Nil))),
                 LAMBDA expr :
           LET c == consume(expr.parser, "Semicolon")
           IN IF ~expr.res.ok THEN expr
              ELSE IF expr.res.val = None
              THEN P(expr.parser, Err(ParserError("VarMissingExpr")))
              ELSE IF ~c.res.ok THEN c
              ELSE P(c.parser, Ok(Var(name.res.val.lexeme, expr.res.val))))

\* Parser::function_declaration: the loop over the parameters
parameters_loop(parser, parameters) ==
    LET name == consume(parser, "Ident")
        m == match_type(name.parser, {"Comma"})
    IN IF ~name.res.ok THEN name
       ELSE IF m.matched
       THEN parameters_loop(m.parser, Append(parameters, name.res.val.lexeme))
       ELSE P(m.parser, Ok(Append(parameters, name.res.val.lexeme)))

\* Parser::function_declaration (no function of the model has 255
\* parameters)
function_declaration(parser) ==
    LET name == consume(parser, "Ident")
        paren == consume(name.parser, "LeftParen")
        parameters == IF ~check(paren.parser, "RightParen")
                      THEN parameters_loop(paren.parser, << >>)
                      ELSE P(paren.parser, Ok(<< >>))
        brace == consume(consume(parameters.parser, "RightParen").parser,
                         "LeftBrace").parser
    IN IF ~name.res.ok THEN name
       ELSE IF ~paren.res.ok THEN paren
       ELSE IF ~parameters.res.ok THEN parameters
       ELSE Then(Parser_block_statement(brace), LAMBDA body :
                IF ~body.res.ok THEN body
                ELSE P(body.parser,
                       Ok(Function(name.res.val.lexeme, parameters.res.val,
                                   body.res.val))))

\* Parser::declaration
declaration(parser) ==
    CASE check(parser, "FUN") -> function_declaration(advance(parser))
      [] check(parser, "VAR") -> var_declaration(advance(parser))
      [] OTHER -> statement(parser)

parse_loop_keep_parsed(parser, statements) ==
    IF is_end(parser) THEN Ok(statements)
    ELSE Then(declaration(parser), LAMBDA dec :
             IF ~dec.res.ok THEN Ok(statements)
             ELSE parse_loop(dec.parser,
                             IF dec.res.val = None THEN statements
                             ELSE Append(statements, dec.res.val)))

\* Parser::parse: the while loop
parse_loop(parser, statements) ==
    IF is_end(parser) THEN Ok(statements)
    ELSE Then(declaration(parser), LAMBDA dec :
             IF ~dec.res.ok THEN dec.res
             ELSE parse_loop(dec.parser,
                             IF dec.res.val = None THEN statements
                             ELSE Append(statements, dec.res.val)))

\* Parser::parse
parse(tokens) == parse_loop(Parser_new(tokens), << >>)

\* ----------------------------------------------------------------- programs
\* The programs the interpreter is started on, as the Vec<Statement> that
\* Parser::parse returns for them (the source text is in the comments).
Lits == {Float(n) : n \in Nums} \cup {Str(s) : s \in Strs}
            \cup {Bool(TRUE), Bool(FALSE), Nil}
Num(n) == Literal(Float(n))
Text(s) == Literal(Str(s))

\* var x = a; { var x = b; print x; } print x;
ShadowProgram(a, b) ==
    << Var("x", Literal(a)),
       Block(<< Var("x", Literal(b)), PrintStmt(Variable("x")) >>),
       PrintStmt(Variable("x")) >>

\* { var y = b; } print y;
BlockLocalProgram(b) ==
    << Block(<< Var("y", Literal(b)) >>), PrintStmt(Variable("y")) >>

\* { print y; } print 1;         (y is undefined: the block ends in an error)
BlockErrorProgram == << Block(<< PrintStmt(Variable("y")) >>), PrintStmt(Num(1)) >>

\* fun add(a, b) { return a + b; print "after"; } print add(x, y);
AddProgram(x, y) ==
    << Function("add", <<"a", "b">>,
                << Return(Binary(Variable("a"), "Plus", Variable("b"))),
                   PrintStmt(Text("after")) >>),
       PrintStmt(Call(Variable("add"), << Num(x), Num(y) >>)) >>

\* fun f() { while (true) { return n; } return m; } print f();
LoopReturnProgram(n, m) ==
    << Function("f", << >>,
                << While(Literal(Bool(TRUE)), Block(<< Return(Num(n)) >>)),
                   Return(Num(m)) >>),
       PrintStmt(Call(Variable("f"), << >>)) >>

\* var x = a; fun show() { print x; } { var x = b; show(); }
ClosureProgram(a, b) ==
    << Var("x", Literal(a)),
       Function("show", << >>, << PrintStmt(Variable("x")) >>),
       Block(<< Var("x", Literal(b)),
                Expression(Call(Variable("show"), << >>)) >>) >>

\* var x = n; fun g(a) { print a; } g(x = x + 1); print x;
ArgumentProgram(n) ==
    << Var("x", Num(n)),
       Function("g", <<"a">>, << PrintStmt(Variable("a")) >>),
       Expression(Call(Variable("g"),
                       << Assign("x", Binary(Variable("x"), "Plus", Num(1))) >>)),
       PrintStmt(Variable("x")) >>

\* the first k of the parameter names p1, p2, ... and of the arguments 1, 2, ...
Params(k) == [i \in 1 .. k |-> IF i = 1 THEN "p1" ELSE IF i = 2 THEN "p2" ELSE "p3"]
Args(m) == [i \in 1 .. m |-> Num(IF i <= MaxNum THEN i ELSE MaxNum)]

\* fun g(p1, .., pk) { print "body"; } g(1, .., m);
ArityProgram(k, m) ==
    << Function("g", Params(k), << PrintStmt(Text("body")) >>),
       Expression(Call(Variable("g"), Args(m))) >>

\* fun g(p1, .., pk) { print "body"; } g(y);      (y is undefined)
ArityUndefinedProgram(k) ==
    << Function("g", Params(k), << PrintStmt(Text("body")) >>),
       Expression(Call(Variable("g"), << Variable("y") >>)) >>

\* print clock(1, .., m);
ClockProgram(m) == << PrintStmt(Call(Variable("clock"), Args(m))) >>

\* if (v) print "t"; else print "f";
IfProgram(v) == << If(Literal(v), PrintStmt(Text("t")), PrintStmt(Text("f"))) >>

\* if (clock) print "t"; else print "f";
IfCallableProgram ==
    << If(Variable("clock"), PrintStmt(Text("t")), PrintStmt(Text("f"))) >>

\* if (0 - n) print "t"; else print "f";     (parsed as the unary -n)
IfNegativeProgram(n) ==
    << If(Unary("Minus", Num(n)), PrintStmt(Text("t")), PrintStmt(Text("f"))) >>

\* var c = v; while (c) { print "w"; c = nil; }
WhileProgram(v) ==
    << Var("c", Literal(v)),
       While(Variable("c"),
             Block(<< PrintStmt(Text("w")), Expression(Assign("c", Literal(Nil))) >>)) >>

\* var x = 0; print v or (x = w); print x;      (operator "OR" or "AND")
LogicalProgram(operator, v, w) ==
    << Var("x", Num(0)),
       PrintStmt(Logcial(Literal(v), operator, Grouping(Assign("x", Literal(w))))),
       PrintStmt(Variable("x")) >>

\* print a == b;   print a != b;
EqualityProgram(operator, a, b) ==
    << PrintStmt(Binary(Literal(a), operator, Literal(b))) >>

\* var i = 0; while (i < n) BODY print i;   where BODY is `i = i + 1;` (kind
\* "Expression"), `{ i = i + 1; }` ("Block") or `if (true) i = i + 1;` ("If")
Increment == Assign("i", Binary(Variable("i"), "Plus", Num(1)))
WhileBody(kind) ==
    CASE kind = "Expression" -> Expression(Increment)
      [] kind = "Block" -> Block(<< Expression(Increment) >>)
      [] kind = "If" -> If(Literal(Bool(TRUE)), Expression(Increment), NoElse)
BodyKinds == {"Expression", "Block", "If"}
WhileBodyProgram(kind, n) ==
    << Var("i", Num(0)),
       While(Binary(Variable("i"), "Less", Num(n)), WhileBody(kind)),
       PrintStmt(Variable("i")) >>

\* var i = 0; while (i < n) { print i; i = i + 1; } print i;
CountProgram(n) ==
    << Var("i", Num(0)),
       While(Binary(Variable("i"), "Less", Num(n)),
             Block(<< PrintStmt(Variable("i")), Expression(Increment) >>)),
       PrintStmt(Variable("i")) >>

\* var x = a; { x = b; } print x;
AssignInBlockProgram(a, b) ==
    << Var("x", Literal(a)),
       Block(<< Expression(Assign("x", Literal(b))) >>),
       PrintStmt(Variable("x")) >>

\* var x = a; fun set() { x = b; } set(); print x;
AssignInFunctionProgram(a, b) ==
    << Var("x", Literal(a)),
       Function("set", << >>, << Expression(Assign("x", Literal(b))) >>),
       Expression(Call(Variable("set"), << >>)),
       PrintStmt(Variable("x")) >>

Programs ==
    {ShadowProgram(a, b) : a \in Lits, b \in Lits}
      \cup {BlockLocalProgram(b) : b \in Lits}
      \cup {BlockErrorProgram}
      \cup {AddProgram(x, y) : x \in Nums, y \in Nums}
      \cup {LoopReturnProgram(n, m) : n \in Nums, m \in Nums}
      \cup {ClosureProgram(a, b) : a \in Lits, b \in Lits}
      \cup {ArgumentProgram(n) : n \in Nums}
      \cup {ArityProgram(k, m) : k \in 0 .. MaxArgs, m \in 0 .. MaxArgs}
      \cup {ArityUndefinedProgram(k) : k \in 0 .. MaxArgs}
      \cup {ClockProgram(m) : m \in 0 .. MaxArgs}
      \cup {IfProgram(v) : v \in Lits}
      \cup {IfCallableProgram}
      \cup {IfNegativeProgram(n) : n \in Nums}
      \cup {WhileProgram(v) : v \in Lits}
      \cup {LogicalProgram(o, v, w) : o \in {"OR", "AND"}, v \in Lits, w \in Lits}
      \cup {EqualityProgram(o, a, b) :
                o \in {"EqualEqual", "BangEqual"}, a \in Lits, b \in Lits}
      \cup {WhileBodyProgram(k, n) : k \in BodyKinds, n \in Limits}
      \cup {CountProgram(n) : n \in Limits}
      \cup {AssignInBlockProgram(a, b) : a \in Lits, b \in Lits}
      \cup {AssignInFunctionProgram(a, b) : a \in Lits, b \in Lits}

\* ------------------------------------------------------------------ sources
\* The same programs as the source text the interpreter is started on, each
\* given by its lexemes; the parser makes the Vec<Statement> above of them.

\* the text of a source: its lexemes with a blank between two of them
RECURSIVE Written(_)
Written(lexemes) ==
    IF lexemes = << >> THEN ""
    ELSE IF Len(lexemes) = 1 THEN lexemes[1]
    ELSE lexemes[1] \o " " \o Written(Tail(lexemes))

\* the lexeme of a literal value and of an operator
Spell(v) ==
    CASE v.tag = "Float" -> ToString(v.v)
      [] v.tag = "Str" -> Quoted(v.v)
      [] v.tag = "Bool" -> IF v.v THEN "true" ELSE "false"
      [] v.tag = "Nil" -> "nil"
SpellOperator(ty) ==
    IF \E l \in DOMAIN symbols : symbols[l] = ty
    THEN CHOOSE l \in DOMAIN symbols : symbols[l] = ty
    ELSE CHOOSE l \in DOMAIN keywords : keywords[l] = ty

\* the lexemes of a list: its items with a comma between two of them
Separated(items) ==
    [i \in 1 .. (IF Len(items) = 0 THEN 0 ELSE 2 * Len(items) - 1) |->
        IF i % 2 = 1 THEN items[(i + 1) \div 2] ELSE ","]

ShadowSource(a, b) ==
    << "var", "x", "=", Spell(a), ";", "{", "var", "x", "=", Spell(b),
       ";", "print", "x", ";", "}", "print", "x", ";" >>

BlockLocalSource(b) ==
    << "{", "var", "y", "=", Spell(b), ";", "}", "print", "y", ";" >>

BlockErrorSource ==
    << "{", "print", "y", ";", "}", "print", "1", ";" >>

AddSource(x, y) ==
    << "fun", "add", "(", "a", ",", "b", ")", "{", "return", "a", "+", "b",
       ";", "print", "\"after\"", ";", "}", "print", "add", "(",
       ToString(x), ",", ToString(y), ")", ";" >>

LoopReturnSource(n, m) ==
    << "fun", "f", "(", ")", "{", "while", "(", "true", ")", "{", "return",
       ToString(n), ";", "}", "return", ToString(m), ";", "}", "print", "f",
       "(", ")", ";" >>

ClosureSource(a, b) ==
    << "var", "x", "=", Spell(a), ";", "fun", "show", "(", ")", "{",
       "print", "x", ";", "}", "{", "var", "x", "=", Spell(b), ";", "show",
       "(", ")", ";", "}" >>

ArgumentSource(n) ==
    << "var", "x", "=", ToString(n), ";", "fun", "g", "(", "a", ")", "{",
       "print", "a", ";", "}", "g", "(", "x", "=", "x", "+", "1", ")", ";",
       "print", "x", ";" >>

IfSource(v) ==
    << "if", "(", Spell(v), ")", "print", "\"t\"", ";", "else", "print",
       "\"f\"", ";" >>

IfCallableSource ==
    << "if", "(", "clock", ")", "print", "\"t\"", ";", "else", "print",
       "\"f\"", ";" >>

IfNegativeSource(n) ==
    << "if", "(", "0", "-", ToString(n), ")", "print", "\"t\"", ";", "else",
       "print", "\"f\"", ";" >>

WhileSource(v) ==
    << "var", "c", "=", Spell(v), ";", "while", "(", "c", ")", "{",
       "print", "\"w\"", ";", "c", "=", "nil", ";", "}" >>

LogicalSource(operator, v, w) ==
    << "var", "x", "=", "0", ";", "print", Spell(v), SpellOperator(operator), "(", "x",
       "=", Spell(w), ")", ";", "print", "x", ";" >>

EqualitySource(operator, a, b) ==
    << "print", Spell(a), SpellOperator(operator), Spell(b), ";" >>

CountSource(n) ==
    << "var", "i", "=", "0", ";", "while", "(", "i", "<", ToString(n), ")",
       "{", "print", "i", ";", "i", "=", "i", "+", "1", ";", "}", "print",
       "i", ";" >>

AssignInBlockSource(a, b) ==
    << "var", "x", "=", Spell(a), ";", "{", "x", "=", Spell(b), ";", "}",
       "print", "x", ";" >>

AssignInFunctionSource(a, b) ==
    << "var", "x", "=", Spell(a), ";", "fun", "set", "(", ")", "{", "x",
       "=", Spell(b), ";", "}", "set", "(", ")", ";", "print", "x", ";" >>


ParamsSource(k) == Separated(Params(k))
ArgsSource(m) == Separated([i \in 1 .. m |-> ToString(IF i <= MaxNum THEN i ELSE MaxNum)])

AritySource(k, m) ==
    << "fun", "g", "(" >> \o ParamsSource(k)
      \o << ")", "{", "print", "\"body\"", ";", "}", "g", "(" >>
      \o ArgsSource(m) \o << ")", ";" >>

ArityUndefinedSource(k) ==
    << "fun", "g", "(" >> \o ParamsSource(k)
      \o << ")", "{", "print", "\"body\"", ";", "}", "g", "(", "y", ")", ";" >>

ClockSource(m) == << "print", "clock", "(" >> \o ArgsSource(m) \o << ")", ";" >>

WhileBodyLexemes(kind) ==
    CASE kind = "Expression" -> << "i", "=", "i", "+", "1", ";" >>
      [] kind = "Block" -> << "{", "i", "=", "i", "+", "1", ";", "}" >>
      [] kind = "If" -> << "if", "(", "true", ")", "i", "=", "i", "+", "1", ";" >>
WhileBodySource(kind, n) ==
    << "var", "i", "=", "0", ";", "while", "(", "i", "<", ToString(n), ")" >>
      \o WhileBodyLexemes(kind) \o << "print", "i", ";" >>

\* for (var i = 0; i < n; i = i + 1) print i;
ForSource(n) ==
    << "for", "(", "var", "i", "=", "0", ";", "i", "<", ToString(n), ";",
       "i", "=", "i", "+", "1", ")", "print", "i", ";" >>

\* var i = 0; for (i = 0; i < n; i = i + 1) print i;
ForAssignSource(n) ==
    << "var", "i", "=", "0", ";", "for", "(", "i", "=", "0", ";", "i", "<",
       ToString(n), ";", "i", "=", "i", "+", "1", ")", "print", "i", ";" >>

\* var i = 0; for (; i < n;) { print i; i = i + 1; }
ForBareSource(n) ==
    << "var", "i", "=", "0", ";", "for", "(", ";", "i", "<", ToString(n),
       ";", ")", "{", "print", "i", ";", "i", "=", "i", "+", "1", ";", "}" >>

\* for (INIT; i = i + 1) { print i; if (i == n) print y; }   with no condition:
\* the loop ends when y, which is undefined, is read.  INIT is `var i = 0;`
\* (kind "Var"), `i = 0;` ("Expression") or `;` ("None"); for the last two
\* `var i = 0;` comes before the loop.
ForInitLexemes(kind) ==
    CASE kind = "Var" -> << "for", "(", "var", "i", "=", "0", ";" >>
      [] kind = "Expression" ->
            << "var", "i", "=", "0", ";", "for", "(", "i", "=", "0", ";" >>
      [] kind = "None" -> << "var", "i", "=", "0", ";", "for", "(", ";" >>
InitKinds == {"Var", "Expression", "None"}
ForEverSource(kind, n) ==
    ForInitLexemes(kind)
      \o << ";", "i", "=", "i", "+", "1", ")", "{", "print", "i", ";", "if",
            "(", "i", "==", ToString(n), ")", "print", "y", ";", "}" >>

\* var x = a; var x = b; print x;
RedefineSource(a, b) ==
    << "var", "x", "=", Spell(a), ";", "var", "x", "=", Spell(b), ";",
       "print", "x", ";" >>

\* var x = n;       print x;       x = n;
DefineSource(n) == << "var", "x", "=", ToString(n), ";" >>
ShowSource == << "print", "x", ";" >>
AssignSource(n) == << "x", "=", ToString(n), ";" >>

\* print x; print n;       (x is undefined)
UndefinedSource(n) == << "print", "x", ";", "print", ToString(n), ";" >>

\* print n; @       print n; "a       (the scanner fails after a statement)
ScannerErrorSource(n) == << "print", ToString(n), ";", "@" >>
StringErrorSource(n) == << "print", ToString(n), ";", Unterminated >>

\* print n; print ;       print n; print n       x = n; x + ;
\* (the parser fails after a statement)
ParserErrorSource(n) == << "print", ToString(n), ";", "print", ";" >>
ConsumeErrorSource(n) == << "print", ToString(n), ";", "print", ToString(n) >>
OperandErrorSource(n) == << "x", "=", ToString(n), ";", "x", "+", ";" >>

\* the binary operators, from the level that binds tightest to the loosest
Levels ==
    << {"Star", "Slash"}, {"Plus", "Minus"},
       {"Greater", "GreaterEqual", "Less", "LessEqual"},
       {"EqualEqual", "BangEqual"}, {"AND"}, {"OR"} >>
BinaryOperators == UNION {Levels[i] : i \in DOMAIN Levels}

\* the node of a binary operator: Logcial for `and` and `or`, else Binary
Operation(left, operator, right) ==
    IF operator \in {"AND", "OR"} THEN Logcial(left, operator, right)
    ELSE Binary(left, operator, right)

\* print a op b op c;       and what it reads as from the left
ChainSource(operator, a, b, c) ==
    << "print", ToString(a), SpellOperator(operator), ToString(b),
       SpellOperator(operator), ToString(c), ";" >>
ChainProgram(operator, a, b, c) ==
    << PrintStmt(Operation(Operation(Num(a), operator, Num(b)), operator, Num(c))) >>

\* var x = 0; var y = 0; x = y = n; print x; print y;
AssignChainSource(n) ==
    << "var", "x", "=", "0", ";", "var", "y", "=", "0", ";", "x", "=", "y",
       "=", ToString(n), ";", "print", "x", ";", "print", "y", ";" >>
AssignChainProgram(n) ==
    << Var("x", Num(0)), Var("y", Num(0)),
       Expression(Assign("x", Assign("y", Num(n)))),
       PrintStmt(Variable("x")), PrintStmt(Variable("y")) >>

\* the pairs of a binary operator and one of a looser level
Tighter ==
    {<< hi, lo >> \in BinaryOperators \X BinaryOperators :
        \E i \in DOMAIN Levels, j \in DOMAIN Levels :
           i < j /\ hi \in Levels[i] /\ lo \in Levels[j]}

\* print 1 hi 2 lo 3;       print 1 lo 2 hi 3;       hi of the tighter level
TightFirstSource(hi, lo) ==
    << "print", "1", SpellOperator(hi), "2", SpellOperator(lo), "3", ";" >>
TightFirstProgram(hi, lo) ==
    << PrintStmt(Operation(Operation(Num(1), hi, Num(2)), lo, Num(3))) >>
TightLastSource(lo, hi) ==
    << "print", "1", SpellOperator(lo), "2", SpellOperator(hi), "3", ";" >>
TightLastProgram(lo, hi) ==
    << PrintStmt(Operation(Num(1), lo, Operation(Num(2), hi, Num(3)))) >>

\* var x = 0; x = 1 op 2;
AssignOperationSource(operator) ==
    << "var", "x", "=", "0", ";", "x", "=", "1", SpellOperator(operator),
       "2", ";" >>
AssignOperationProgram(operator) ==
    << Var("x", Num(0)),
       Expression(Assign("x", Operation(Num(1), operator, Num(2)))) >>

\* print (1 + 2) * 3;
GroupSource == << "print", "(", "1", "+", "2", ")", "*", "3", ";" >>

\* print l op r;
OperationSource(operator, l, r) ==
    << "print", ToString(l), SpellOperator(operator), ToString(r), ";" >>
OperationProgram(operator, l, r) ==
    << PrintStmt(Operation(Num(l), operator, Num(r))) >>
Arithmetic == {"Plus", "Minus", "Star", "Slash"}
Comparisons == {"Less", "LessEqual", "Greater", "GreaterEqual"}

\* print - n;       print ! v;       print ! ! v;
NegateSource(n) == << "print", "-", ToString(n), ";" >>
NotSource(v) == << "print", "!", Spell(v), ";" >>
NotNotSource(v) == << "print", "!", "!", Spell(v), ";" >>

\* target = n;       for a target that is no variable: a literal, a grouping,
\* a binary expression, a call
Targets == { << "1" >>, << "(", "x", ")" >>, << "x", "+", "1" >>, << "f", "(", ")" >> }
TargetSource(target, n) == target \o << "=", ToString(n), ";" >>

\* var a = 0; print a = n; print a;
PrintAssignSource(n) ==
    << "var", "a", "=", "0", ";", "print", "a", "=", ToString(n), ";",
       "print", "a", ";" >>
PrintAssignProgram(n) ==
    << Var("a", Num(0)), PrintStmt(Assign("a", Num(n))), PrintStmt(Variable("a")) >>

\* var a = 0; var b = a = n; print a; print b;
VarAssignSource(n) ==
    << "var", "a", "=", "0", ";", "var", "b", "=", "a", "=", ToString(n),
       ";", "print", "a", ";", "print", "b", ";" >>
VarAssignProgram(n) ==
    << Var("a", Num(0)), Var("b", Assign("a", Num(n))),
       PrintStmt(Variable("a")), PrintStmt(Variable("b")) >>

\* fun f() { print n; return; print "after"; } f();
BareReturnSource(n) ==
    << "fun", "f", "(", ")", "{", "print", ToString(n), ";", "return", ";",
       "print", "\"after\"", ";", "}", "f", "(", ")", ";" >>

\* fun f() { } print f();       fun f() { var x = n; } print f();
EmptyBodySource == << "fun", "f", "(", ")", "{", "}", "print", "f", "(", ")", ";" >>
NoReturnSource(n) ==
    << "fun", "f", "(", ")", "{", "var", "x", "=", ToString(n), ";", "}",
       "print", "f", "(", ")", ";" >>

\* fun f() { print n; } f();
PrintingBodySource(n) ==
    << "fun", "f", "(", ")", "{", "print", ToString(n), ";", "}", "f", "(",
       ")", ";" >>

\* the sources on which the scanner or the parser fails
FailingSources ==
    {ScannerErrorSource(n) : n \in Nums}
      \cup {StringErrorSource(n) : n \in Nums}
      \cup {ParserErrorSource(n) : n \in Nums}
      \cup {ConsumeErrorSource(n) : n \in Nums}
      \cup {OperandErrorSource(n) : n \in Nums}

\* the lines read at the prompt after the first
Lines ==
    {DefineSource(1), ShowSource, AssignSource(2), UndefinedSource(1),
     ScannerErrorSource(1), ParserErrorSource(1)}

Sources ==
    {ShadowSource(a, b) : a \in Lits, b \in Lits}
      \cup {BlockLocalSource(b) : b \in Lits}
      \cup {BlockErrorSource}
      \cup {AddSource(x, y) : x \in Nums, y \in Nums}
      \cup {LoopReturnSource(n, m) : n \in Nums, m \in Nums}
      \cup {ClosureSource(a, b) : a \in Lits, b \in Lits}
      \cup {ArgumentSource(n) : n \in Nums}
      \cup {AritySource(k, m) : k \in 0 .. MaxArgs, m \in 0 .. MaxArgs}
      \cup {ArityUndefinedSource(k) : k \in 0 .. MaxArgs}
      \cup {ClockSource(m) : m \in 0 .. MaxArgs}
      \cup {IfSource(v) : v \in Lits}
      \cup {IfCallableSource}
      \cup {IfNegativeSource(n) : n \in Nums}
      \cup {WhileSource(v) : v \in Lits}
      \cup {LogicalSource(o, v, w) : o \in {"OR", "AND"}, v \in Lits, w \in Lits}
      \cup {EqualitySource(o, a, b) :
                o \in {"EqualEqual", "BangEqual"}, a \in Lits, b \in Lits}
      \cup {WhileBodySource(k, n) : k \in BodyKinds, n \in Limits}
      \cup {CountSource(n) : n \in Limits}
      \cup {AssignInBlockSource(a, b) : a \in Lits, b \in Lits}
      \cup {AssignInFunctionSource(a, b) : a \in Lits, b \in Lits}
      \cup {ForSource(n) : n \in Limits}
      \cup {ForAssignSource(n) : n \in Limits}
      \cup {ForBareSource(n) : n \in Limits}
      \cup {ForEverSource(k, n) : k \in InitKinds, n \in Nums}
      \cup {RedefineSource(a, b) : a \in Lits, b \in Lits}
      \cup {DefineSource(n) : n \in Nums}
      \cup {ShowSource}
      \cup {AssignSource(n) : n \in Nums}
      \cup {UndefinedSource(n) : n \in Nums}
      \cup {ChainSource(o, a, b, c) :
                o \in BinaryOperators, a \in Nums, b \in Nums, c \in Nums}
      \cup {AssignChainSource(n) : n \in Nums}
      \cup {TightFirstSource(t[1], t[2]) : t \in Tighter}
      \cup {TightLastSource(t[2], t[1]) : t \in Tighter}
      \cup {AssignOperationSource(o) : o \in BinaryOperators}
      \cup {GroupSource}
      \cup {PrintingBodySource(n) : n \in Nums}
      \cup {BareReturnSource(n) : n \in Nums}
      \cup {EmptyBodySource}
      \cup {NoReturnSource(n) : n \in Nums}
      \cup {PrintAssignSource(n) : n \in Nums}
      \cup {VarAssignSource(n) : n \in Nums}
      \cup {TargetSource(t, n) : t \in Targets \cup { << "x" >> }, n \in Nums}
      \cup {OperationSource("Minus", 5, 2)}
      \cup {NegateSource(n) : n \in Nums}
      \cup {NotSource(v) : v \in Lits}
      \cup {NotNotSource(v) : v \in Lits}
      \cup {OperationSource(o, l, r) :
                o \in Arithmetic \cup Comparisons, l \in Nums, r \in Nums}
      \cup FailingSources

\* the statements the parser makes of a source that it accepts
Parsed(source) == parse(scan_tokens(Written(source)).val).val

\* the parser makes of each source the statements written for it above
ParsedAsWritten ==
    /\ \A a \in Lits, b \in Lits :
          /\ Parsed(ShadowSource(a, b)) = ShadowProgram(a, b)
          /\ Parsed(ClosureSource(a, b)) = ClosureProgram(a, b)
          /\ Parsed(AssignInBlockSource(a, b)) = AssignInBlockProgram(a, b)
          /\ Parsed(AssignInFunctionSource(a, b)) = AssignInFunctionProgram(a, b)
          /\ \A o \in {"OR", "AND"} :
                Parsed(LogicalSource(o, a, b)) = LogicalProgram(o, a, b)
          /\ \A o \in {"EqualEqual", "BangEqual"} :
                Parsed(EqualitySource(o, a, b)) = EqualityProgram(o, a, b)
    /\ \A b \in Lits :
          /\ Parsed(BlockLocalSource(b)) = BlockLocalProgram(b)
          /\ Parsed(IfSource(b)) = IfProgram(b)
          /\ Parsed(WhileSource(b)) = WhileProgram(b)
    /\ Parsed(BlockErrorSource) = BlockErrorProgram
    /\ Parsed(IfCallableSource) = IfCallableProgram
    /\ \A n \in Nums, m \in Nums :
          /\ Parsed(AddSource(n, m)) = AddProgram(n, m)
          /\ Parsed(LoopReturnSource(n, m)) = LoopReturnProgram(n, m)
    /\ \A n \in Nums :
          /\ Parsed(ArgumentSource(n)) = ArgumentProgram(n)
          /\ Parsed(IfNegativeSource(n)) = IfNegativeProgram(n)
    /\ \A k \in 0 .. MaxArgs :
          /\ \A m \in 0 .. MaxArgs : Parsed(AritySource(k, m)) = ArityProgram(k, m)
          /\ Parsed(ArityUndefinedSource(k)) = ArityUndefinedProgram(k)
          /\ Parsed(ClockSource(k)) = ClockProgram(k)
    /\ \A n \in Limits :
          /\ Parsed(CountSource(n)) = CountProgram(n)
          /\ \A k \in BodyKinds : Parsed(WhileBodySource(k, n)) = WhileBodyProgram(k, n)
    /\ Programs \subseteq {Parsed(source) : source \in Sources \ FailingSources}

\* ------------------------------------------------------------ state machine
VARIABLES
    globals,      \* Interpreter.globals
    environment,  \* Interpreter.environment
    is_repl,      \* Interpreter.is_repl
    contents,     \* the text last read: the file, or the line at the prompt
    runs,         \* the number of calls of Interpreter::run so far
    ast,          \* the statements Parser::parse returned to Interpreter::run
    idx,          \* the position of the for loop of run in ast
    stdout,       \* the lines written to stdout (the prompts left out)
    stderr,       \* the errors written to stderr by eprintln!
    result,       \* what Interpreter::start returned: "Ok" or "Err"
    scanner,      \* the Scanner, where scan_tokens is followed turn by turn
    pc            \* "build", "run", "prompt", "scan" or "done"

vars == <<globals, environment, is_repl, contents, runs, ast, idx, stdout,
          stderr, result, scanner, pc>>

ClockTimes == -1 .. MaxClock

\* Interpreter::build
Init ==
    /\ globals = define(Environment_new(<< >>), "clock", Clock)
    /\ environment = define(Environment_new(<< >>), "clock", Clock)
    /\ is_repl = FALSE
    /\ contents = ""
    /\ runs = 0
    /\ ast = << >>
    /\ idx = 1
    /\ stdout = << >>
    /\ stderr = << >>
    /\ result = "running"
    /\ scanner = Scanner_build("")
    /\ pc = "build"

\* Interpreter::run, up to the for loop over the statements: an error of the
\* scanner is returned to the caller, which returns it from start; an error
\* of the parser is written to stderr and leaves nothing to execute
run(source) ==
    \E tokens \in {scan_tokens(source)} :
        \E parsed \in {IF tokens.ok THEN parse(tokens.val) ELSE tokens} :
            /\ contents' = source
            /\ runs' = runs + 1
            /\ idx' = 1
            /\ IF ~tokens.ok
               THEN /\ ast' = << >>
                    /\ stderr' = stderr
                    /\ result' = "Err"
                    /\ pc' = "done"
               ELSE /\ ast' = IF parsed.ok THEN parsed.val ELSE << >>
                    /\ stderr' = IF parsed.ok THEN stderr
                                 ELSE Append(stderr, parsed.err)
                    /\ result' = result
                    /\ pc' = "run"
            /\ UNCHANGED <<globals, environment, stdout, scanner>>

\* Interpreter::start: with a file argument run_file reads the file, which
\* may fail, and runs its contents; without one the prompt is entered
start ==
    /\ pc = "build"
    /\ \/ /\ is_repl' = FALSE
          /\ \E file \in Sources : run(Written(file))
       \/ /\ is_repl' = FALSE
          /\ result' = "Err"
          /\ pc' = "done"
          /\ UNCHANGED <<globals, environment, contents, runs, ast, idx,
                         stdout, stderr, scanner>>
       \/ /\ is_repl' = TRUE
          /\ pc' = "prompt"
          /\ UNCHANGED <<globals, environment, contents, runs, ast, idx,
                         stdout, stderr, result, scanner>>

\* Interpreter::run_prompt: one turn of the loop.  The line read is a source
\* and its "\n", only the "\n" for an empty line, or nothing at the end of
\* the input; a buffer of at most one character ends the loop and start
\* returns Ok.
run_prompt ==
    /\ pc = "prompt"
    /\ \/ /\ runs < MaxLines
          /\ \E line \in (IF runs = 0 THEN Sources ELSE Lines) :
                run(Written(line) \o "\n")
          /\ UNCHANGED is_repl
       \/ /\ \E buffer \in {"", "\n"} : contents' = buffer
          /\ result' = "Ok"
          /\ pc' = "done"
          /\ UNCHANGED <<globals, environment, is_repl, runs, ast, idx,
                         stdout, stderr, scanner>>

\* Interpreter::run: one iteration of `for stmt in &ast`
run_statement ==
    /\ pc = "run"
    /\ idx <= Len(ast)
    /\ \E now \in ClockTimes :
          LET r == evaluate_statement(
                       [environment |-> environment, stdout |-> stdout, now |-> now],
                       ast[idx])
          IN /\ environment' = r.inter.environment
             /\ IF r.res.ok
                THEN /\ stdout' = IF is_repl /\ r.res.val # None
                                  THEN Append(r.inter.stdout, print_lit(r.res.val))
                                  ELSE r.inter.stdout
                     /\ stderr' = stderr
                ELSE /\ stdout' = r.inter.stdout
                     /\ stderr' = Append(stderr, r.res.err)
    /\ idx' = idx + 1
    /\ UNCHANGED <<globals, is_repl, contents, runs, ast, result, scanner, pc>>

\* Interpreter::run: the end of the for loop, run returns Ok(()): to the loop
\* of run_prompt, or through run_file to start, which returns Ok
run_return ==
    /\ pc = "run"
    /\ idx > Len(ast)
    /\ IF is_repl
       THEN pc' = "prompt" /\ result' = result
       ELSE pc' = "done" /\ result' = "Ok"
    /\ UNCHANGED <<globals, environment, is_repl, contents, runs, ast, idx,
                   stdout, stderr, scanner>>

Next == start \/ run_prompt \/ run_statement \/ run_return

Spec == Init /\ [][Next]_vars

\* the while bound of the model is never what ends a loop
WithinMaxIter == \A i \in DOMAIN stderr : stderr[i].kind # "MaxIter"

\* ------------------------------------------------- the scanner, turn by turn

\* the longest text the scanner is followed on, and the characters of the texts
MaxText == 4
Characters == {"!", "=", "<", ">", "/", "\n", "a", "@"}

RECURSIVE TextsUpTo(_)
TextsUpTo(n) ==
    IF n = 0 THEN {""}
    ELSE {""} \cup {c \o rest : c \in Characters, rest \in TextsUpTo(n - 1)}

\* Scanner::build on any text
ScannerInit ==
    /\ globals = define(Environment_new(<< >>), "clock", Clock)
    /\ environment = define(Environment_new(<< >>), "clock", Clock)
    /\ is_repl = FALSE
    /\ contents \in TextsUpTo(MaxText)
    /\ runs = 0
    /\ ast = << >>
    /\ idx = 1
    /\ stdout = << >>
    /\ stderr = << >>
    /\ result = "running"
    /\ scanner = Scanner_build(contents)
    /\ pc = "scan"

\* Scanner::scan_tokens: one turn of `while !self.is_end()`; the error of
\* scan_token is returned at once, the Scanner as the turn found it
scan_tokens_turn ==
    /\ pc = "scan"
    /\ ~Scanner_is_end(scanner)
    /\ \E scanned \in {scan_step(scanner)} :
          IF scanned.ok
          THEN scanner' = scanned.val /\ result' = result /\ pc' = pc
          ELSE scanner' = scanner /\ result' = "Err" /\ pc' = "done"
    /\ UNCHANGED <<globals, environment, is_repl, contents, runs, ast, idx,
                   stdout, stderr>>

\* Scanner::scan_tokens: after the loop, the EOF token and Ok(tokens)
scan_tokens_return ==
    /\ pc = "scan"
    /\ Scanner_is_end(scanner)
    /\ scanner' = scan_end(scanner)
    /\ result' = "Ok"
    /\ pc' = "done"
    /\ UNCHANGED <<globals, environment, is_repl, contents, runs, ast, idx,
                   stdout, stderr>>

ScannerNext == scan_tokens_turn \/ scan_tokens_return

ScannerSpec == ScannerInit /\ [][ScannerNext]_vars


\* ------------------------------------------------------------------- claims
\* the interpreter has ended after one call of run: the program was all it ran
Done == pc = "done" /\ runs = 1

\* truthiness as the specification defines it: only nil and false are falsy
Truthy(v) == v # Nil /\ v # Bool(FALSE)

IsBlock(stmt) == stmt.type = "Block"
IsCall(stmt) ==
    /\ stmt.type \in {"Expression", "Print"}
    /\ stmt.expression.type = "Call"

\* the scopes of two chains bind the same names, scope by scope
SameScopes(env1, env2) ==
    /\ Len(env1) = Len(env2)
    /\ \A i \in DOMAIN env1 : DOMAIN env1[i] = DOMAIN env2[i]

\* C1: a Block statement or a call of a user function, run as a statement of
\* the program, leaves the current environment the one it was before the
\* statement (the same scopes binding the same names), whether it ends
\* normally, in a Return or in a runtime error; the chain does not grow.
C1_ScopeRelease ==
    [][(pc = "run" /\ idx <= Len(ast) /\ idx' = idx + 1
            /\ (IsBlock(ast[idx]) \/ IsCall(ast[idx])))
          => SameScopes(environment', environment)]_vars

\* C2: `var x = a; { var x = b; print x; } print x;` prints b then a, and
\* after `{ var y = b; }` the name y is unbound: `print y;` prints nothing
\* and reports UndefinedVariable.
C2_BlockShadowing ==
    /\ \A a \in Lits, b \in Lits :
          (ast = ShadowProgram(a, b) /\ Done)
             => stdout = << print_lit(b), print_lit(a) >>
    /\ \A b \in Lits :
          (ast = BlockLocalProgram(b) /\ Done)
             => /\ stdout = << >>
                /\ Len(stderr) = 1
                /\ stderr[1].kind = "UndefinedVariable"

\* C3: `fun add(a, b) { return a + b; print "after"; } print add(x, y);`
\* prints the sum x + y and nothing else: the call evaluates to the value
\* returned and the statement after the return is not executed.
C3_ReturnValue ==
    \A x \in Nums, y \in Nums :
       (ast = AddProgram(x, y) /\ Done)
          => /\ stdout = << ToString(x + y) >>
             /\ stderr = << >>

\* C4: a Return raised inside while/block nesting of a function body is
\* caught by the call: no Return ever reaches the run loop to be reported on
\* stderr, and `fun f() { while (true) { return n; } return m; } print f();`
\* prints n.
C4_ReturnUnwinding ==
    /\ \A i \in DOMAIN stderr : stderr[i].kind # "Return"
    /\ \A n \in Nums, m \in Nums :
          (ast = LoopReturnProgram(n, m) /\ Done) => stdout = << ToString(n) >>

\* C5: a function body runs in an environment whose parent is the
\* environment of the declaration, not the caller's:
\* `var x = a; fun show() { print x; } { var x = b; show(); }` prints a
\* first.
C5_LexicalClosure ==
    \A a \in Lits, b \in Lits :
       (ast = ClosureProgram(a, b) /\ Done)
          => /\ Len(stdout) >= 1
             /\ stdout[1] = print_lit(a)

\* C6: each argument of a call is evaluated exactly once before the body
\* starts: in `var x = n; fun g(a) { print a; } g(x = x + 1); print x;` the
\* parameter a is n + 1, the first line printed.
C6_ArgumentsOnce ==
    \A n \in Nums :
       (ast = ArgumentProgram(n) /\ Done)
          => /\ Len(stdout) >= 1
             /\ stdout[1] = ToString(n + 1)

\* C7: a call with a number of arguments different from the number of
\* parameters (of a user function g of k parameters, or of the native clock
\* of none) fails with IncorrectArgumentCount(expected, got) and executes no
\* statement of the body; the arguments are evaluated first, so an argument
\* that fails reports its own error, and the body is not executed either.
C7_ArityEnforcement ==
    /\ \A k \in 0 .. MaxArgs, m \in 0 .. MaxArgs :
          (ast = ArityProgram(k, m) /\ k # m /\ Done)
             => /\ stdout = << >>
                /\ Len(stderr) = 1
                /\ stderr[1].kind = "IncorrectArgumentCount"
                /\ stderr[1].expected = k
                /\ stderr[1].got = m
    /\ \A m \in 1 .. MaxArgs :
          (ast = ClockProgram(m) /\ Done)
             => /\ stdout = << >>
                /\ Len(stderr) = 1
                /\ stderr[1].kind = "IncorrectArgumentCount"
                /\ stderr[1].expected = 0
                /\ stderr[1].got = m
    /\ \A k \in 0 .. MaxArgs :
          (ast = ArityUndefinedProgram(k) /\ k # 1 /\ Done)
             => /\ stdout = << >>
                /\ Len(stderr) = 1

\* a call of a function of one parameter with two arguments has been run and
\* refused
C7_Witness ==
    /\ ast = ArityProgram(1, 2)
    /\ Done
    /\ Len(stderr) = 1
    /\ stderr[1].kind = "IncorrectArgumentCount"

\* C8: in the condition of an if and of a while, nil and false are the only
\* falsy values: every Number (0 and negative ones too), every String (the
\* empty one too) and every Callable selects the then branch / runs the
\* body.
C8_Truthiness ==
    /\ \A v \in Lits :
          (ast = IfProgram(v) /\ Done)
             => stdout = << IF Truthy(v) THEN "t" ELSE "f" >>
    /\ (ast = IfCallableProgram /\ Done) => stdout = << "t" >>
    /\ \A n \in Nums :
          (ast = IfNegativeProgram(n) /\ Done) => stdout = << "t" >>
    /\ \A v \in Lits :
          (ast = WhileProgram(v) /\ Done)
             => stdout = IF Truthy(v) THEN << "w" >> ELSE << >>

\* C9: in `var x = 0; print v or (x = w); print x;` a truthy v is printed
\* unchanged and x stays 0 (the right operand is not evaluated), otherwise w
\* is printed and x is w; with `and` the same for a falsy v.
C9_ShortCircuit ==
    \A o \in {"OR", "AND"}, v \in Lits, w \in Lits :
       (ast = LogicalProgram(o, v, w) /\ Done)
          => stdout = IF Truthy(v) = (o = "OR")
                      THEN << print_lit(v), "0" >>
                      ELSE << print_lit(w), print_lit(w) >>

\* what `a == b` evaluates to in the initial environment
EqualEqualOf(a, b) ==
    evaluate_expr([environment |-> globals, stdout |-> << >>, now |-> 0],
                  Binary(Literal(a), "EqualEqual", Literal(b))).res

\* C10: whenever `a == b` evaluates to a Bool v, `print a != b;` prints the
\* Bool not v and reports no error.
C10_BangEqualNegates ==
    \A a \in Lits, b \in Lits :
       (/\ ast = EqualityProgram("BangEqual", a, b)
        /\ Done
        /\ EqualEqualOf(a, b).ok
        /\ EqualEqualOf(a, b).val.tag = "Bool")
          => /\ stdout = << print_lit(Bool(~EqualEqualOf(a, b).val.v)) >>
             /\ stderr = << >>

\* C11: `print a == b;` prints true when a and b are the same kind of value
\* with the same content and false otherwise, for every pair of Number,
\* String, Bool and nil operands, and reports no error.
C11_Equality ==
    \A a \in Lits, b \in Lits :
       (ast = EqualityProgram("EqualEqual", a, b) /\ Done)
          => /\ stdout = << print_lit(Bool(a = b)) >>
             /\ stderr = << >>

\* C12: `var i = 0; while (i < n) BODY print i;` ends by printing n (0 when
\* the loop never runs) whether the body that increments i is an expression
\* statement, a block or an if statement: the loop goes on until the
\* condition is false.
C12_While ==
    \A k \in BodyKinds, n \in Limits :
       (ast = WhileBodyProgram(k, n) /\ Done)
          => /\ Len(stdout) >= 1
             /\ stdout[Len(stdout)] = ToString(n)
             /\ stderr = << >>

\* the lines "0", "1", ..., "n - 1"
CountLines(n) == [k \in 1 .. n |-> ToString(k - 1)]

\* C13: an assignment made inside a block or a function body changes the
\* binding of the enclosing scope: `var i = 0; while (i < n) { print i;
\* i = i + 1; } print i;` prints 0 .. n - 1, ends, and prints n after the
\* loop; `var x = a; { x = b; } print x;` prints b; and
\* `var x = a; fun set() { x = b; } set(); print x;` prints b last.
C13_MutationThroughScopes ==
    /\ \A n \in Limits :
          (ast = CountProgram(n) /\ Done)
             => /\ stdout = Append(CountLines(n), ToString(n))
                /\ stderr = << >>
    /\ \A a \in Lits, b \in Lits :
          (ast = AssignInBlockProgram(a, b) /\ Done)
             => /\ stdout = << print_lit(b) >>
                /\ stderr = << >>
    /\ \A a \in Lits, b \in Lits :
          (ast = AssignInFunctionProgram(a, b) /\ Done)
             => /\ Len(stdout) >= 1
                /\ stdout[Len(stdout)] = print_lit(b)
                /\ stderr = << >>

\* the loop that counts to three has printed 0, 1, 2 and ended
C13_Witness ==
    /\ ast = CountProgram(3)
    /\ Done
    /\ stdout = << "0", "1", "2", "3" >>

\* C14: `for (init; cond; incr) body` behaves as `{ init; while (cond)
\* { body; incr; } }`: `for (var i = 0; i < n; i = i + 1) print i;` prints
\* 0 .. n - 1, and so does the loop whose init is the assignment `i = 0` and
\* the one with neither init nor incr whose body increments i; with no cond
\* the condition is true: `for (INIT; i = i + 1) { print i; if (i == n)
\* print y; }` prints 0 .. n and ends in the error of reading y, whether INIT
\* is a var declaration, an assignment or empty.
C14_ForDesugaring ==
    /\ \A n \in Limits :
          (Done /\ ast \in {Parsed(ForSource(n)), Parsed(ForAssignSource(n)),
                              Parsed(ForBareSource(n))})
             => /\ stdout = CountLines(n)
                /\ stderr = << >>
    /\ \A k \in InitKinds, n \in Nums :
          (Done /\ ast = Parsed(ForEverSource(k, n)))
             => /\ stdout = CountLines(n + 1)
                /\ Len(stderr) = 1
                /\ stderr[1].kind = "UndefinedVariable"

\* C15: once a statement of a run unit has raised a runtime error no later
\* statement of the unit is executed: a statement of the first unit is only
\* executed while nothing has been reported on stderr (so `print x; print 1;`
\* with x undefined does not print 1).
C15_RuntimeErrorAborts ==
    [][(pc = "run" /\ runs = 1 /\ idx' = idx + 1) => stderr = << >>]_vars

\* C16: at the prompt only an empty line (or the end of the input) ends the
\* loop, whatever error the lines before it ran into, and reading the next
\* line leaves the environment as the lines before it made it.
C16_ReplSurvivesErrors ==
    [][/\ (is_repl /\ pc # "done" /\ pc' = "done") => Len(contents') <= 1
       /\ (pc = "prompt") => environment' = environment]_vars

\* C17: in file mode start returns an error whenever the scanner, the parser
\* or a statement failed, and Ok only when the file ran without any error.
C17_FileModeFailureStatus ==
    (~is_repl /\ pc = "done" /\ runs = 1)
       => (result = "Err" <=> (~scan_tokens(contents).ok \/ stderr # << >>))

\* the sources on which the scanner or the parser fails, as a file and as a
\* line at the prompt
Failing ==
    {Written(source) : source \in FailingSources}
        \cup {Written(source) \o "\n" : source \in FailingSources}

\* C18: when the scanner or the parser fails anywhere in a run unit, no step
\* from its reading on writes to stdout or changes the environment: none of
\* its statements is executed.
C18_FrontEndErrorsAbort ==
    [][contents' \in Failing
          => (stdout' = stdout /\ environment' = environment)]_vars

\* at the prompt `var x = 1;` has been run, then a line whose second
\* statement does not parse: the error is reported and x is still the only
\* binding made
C18_Witness ==
    /\ is_repl
    /\ runs = 2
    /\ pc = "prompt"
    /\ contents = Written(ParserErrorSource(1)) \o "\n"
    /\ Len(stderr) = 1
    /\ stdout = << >>
    /\ get(environment, "x") = Ok(Float(1))

\* a name is bound in some scope of a chain; the innermost scope that binds it
Bound(env, name) == \E i \in DOMAIN env : name \in DOMAIN env[i]
Innermost(env, name) ==
    CHOOSE i \in DOMAIN env :
       /\ name \in DOMAIN env[i]
       /\ \A j \in 1 .. i - 1 : name \notin DOMAIN env[j]

\* C19: in every environment the interpreter reaches, for a name bound in no
\* scope get and assign fail with UndefinedVariable and assign leaves every
\* scope as it was (it binds nothing); for a bound name assign succeeds and
\* overwrites the binding of the innermost scope that binds it, and nothing
\* else.  `x = n;` run on its own reports UndefinedVariable and leaves the
\* environment the initial one.
C19_UnboundNames ==
    /\ \A name \in Identifiers, value \in Lits :
          LET g == get(environment, name)
              a == assign(environment, name, value)
          IN IF ~Bound(environment, name)
             THEN /\ ~g.ok
                  /\ g.err.kind = "UndefinedVariable"
                  /\ ~a.res.ok
                  /\ a.res.err.kind = "UndefinedVariable"
                  /\ a.env = environment
             ELSE /\ a.res.ok
                  /\ a.env = [environment EXCEPT
                                 ![Innermost(environment, name)][name] = value]
    /\ \A n \in Nums :
          (Done /\ ast = Parsed(AssignSource(n)))
             => /\ environment = globals
                /\ Len(stderr) = 1
                /\ stderr[1].kind = "UndefinedVariable"

\* `x = 1;` has been run where x is unbound
C19_Witness ==
    /\ Done
    /\ ast = Parsed(AssignSource(1))
    /\ ~Bound(environment, "x")
    /\ Len(stderr) = 1

\* C20: in every environment the interpreter reaches, define(name, value)
\* changes the current scope only, where it binds name to value and leaves
\* the other names as they were, and a get(name) right after it returns
\* value, whether name was bound before (in the current or an enclosing
\* scope) or not.  `var x = a; var x = b; print x;` prints b.
C20_Define ==
    /\ \A name \in Identifiers, value \in Lits :
          LET env == define(environment, name, value)
          IN /\ Len(env) = Len(environment)
             /\ Tail(env) = Tail(environment)
             /\ DOMAIN env[1] = DOMAIN environment[1] \cup {name}
             /\ \A other \in DOMAIN environment[1] \ {name} :
                   env[1][other] = environment[1][other]
             /\ get(env, name) = Ok(value)
    /\ \A a \in Lits, b \in Lits :
          (Done /\ ast = Parsed(RedefineSource(a, b)))
             => /\ stdout = << print_lit(b) >>
                /\ stderr = << >>

\* x has been declared twice in the global scope and read
C20_Witness ==
    /\ Done
    /\ ast = Parsed(RedefineSource(Float(1), Float(2)))
    /\ stdout = << "2" >>
    /\ get(environment, "x") = Ok(Float(2))

\* the one-character and the two-character token of an operator character
OneCharacter ==
    ("!" :> "Bang") @@ ("=" :> "Equal") @@ ("<" :> "Less") @@ (">" :> "Greater")
TwoCharacters ==
    ("!" :> "BangEqual") @@ ("=" :> "EqualEqual") @@ ("<" :> "LessEqual")
      @@ (">" :> "GreaterEqual")

\* C27: a turn of the scanner at `!`, `=`, `<` or `>` adds one token: the
\* two-character one, of both characters, when the next character is `=`, and
\* the one-character one otherwise. A turn at `//` adds no token and stops
\* at the next newline, which it leaves unread, or at the end of the text; a
\* turn at any other `/` adds Slash. A scan that succeeds ends with one EOF
\* token, the last.
C27_MaximalMunch ==
    [][/\ (pc = "scan" /\ ~Scanner_is_end(scanner))
          => LET from == scanner.current
                 c == nth(contents, from)
                 next == IF from + 1 < Len(contents)
                         THEN nth(contents, from + 1) ELSE ""
                 added == SubSeq(scanner'.tokens, Len(scanner.tokens) + 1,
                                 Len(scanner'.tokens))
             IN /\ c \in DOMAIN OneCharacter
                      => /\ pc' = "scan"
                         /\ IF next = "="
                            THEN /\ added = << Token(TwoCharacters[c], c \o "=", "") >>
                                 /\ scanner'.current = from + 2
                            ELSE /\ added = << Token(OneCharacter[c], c, "") >>
                                 /\ scanner'.current = from + 1
                /\ (c = "/" /\ next = "/")
                      => /\ pc' = "scan"
                         /\ added = << >>
                         /\ \/ scanner'.current = Len(contents)
                            \/ nth(contents, scanner'.current) = "\n"
                         /\ \A i \in from .. scanner'.current - 1 :
                                nth(contents, i) # "\n"
                /\ (c = "/" /\ next # "/")
                      => /\ pc' = "scan"
                         /\ added = << Token("Slash", "/", "") >>
                         /\ scanner'.current = from + 1
       /\ (pc' = "done" /\ result' = "Ok")
          => /\ scanner'.tokens[Len(scanner'.tokens)].ty = "EOF"
             /\ Cardinality({i \in DOMAIN scanner'.tokens :
                                scanner'.tokens[i].ty = "EOF"}) = 1
      ]_vars

\* `!=//` has been scanned: one BangEqual token, no token of the comment
C27_Witness ==
    /\ pc = "done"
    /\ result = "Ok"
    /\ contents = "!=//"
    /\ scanner.tokens = << Token("BangEqual", "!=", ""), Token("EOF", "", "") >>

\* C21: `print a op b op c;` parses, for every binary operator op, to the
\* one statement that prints (a op b) op c, and `x = y = n;` parses to the
\* assignment to x of the assignment to y.
C21_Associativity ==
    /\ \A o \in BinaryOperators, a \in Nums, b \in Nums, c \in Nums :
          (Done /\ contents = Written(ChainSource(o, a, b, c)))
             => ast = ChainProgram(o, a, b, c)
    /\ \A n \in Nums :
          (Done /\ contents = Written(AssignChainSource(n)))
             => ast = AssignChainProgram(n)

\* C22: an operator of a tighter level takes its operands before one of a
\* looser level, whichever comes first: `1 hi 2 lo 3` reads (1 hi 2) lo 3 and
\* `1 lo 2 hi 3` reads 1 lo (2 hi 3); `x = 1 op 2` assigns the operation;
\* `print 1 + 2 * 3;` prints 7 and `print (1 + 2) * 3;` prints 9.
C22_Precedence ==
    /\ \A t \in Tighter :
          /\ (Done /\ contents = Written(TightFirstSource(t[1], t[2])))
                => ast = TightFirstProgram(t[1], t[2])
          /\ (Done /\ contents = Written(TightLastSource(t[2], t[1])))
                => ast = TightLastProgram(t[2], t[1])
    /\ \A o \in BinaryOperators :
          (Done /\ contents = Written(AssignOperationSource(o)))
             => ast = AssignOperationProgram(o)
    /\ (Done /\ contents = Written(TightLastSource("Plus", "Star")))
          => stdout = << "7" >> /\ stderr = << >>
    /\ (Done /\ contents = Written(GroupSource))
          => stdout = << "9" >> /\ stderr = << >>

\* the same for the operators that the parser reads as binary operators at
\* all: every one but `-` and `>=`
C22_PrecedenceOfParsedOperators ==
    /\ \A t \in Tighter :
          {t[1], t[2]} \cap {"Minus", "GreaterEqual"} = {}
             => /\ (Done /\ contents = Written(TightFirstSource(t[1], t[2])))
                      => ast = TightFirstProgram(t[1], t[2])
                /\ (Done /\ contents = Written(TightLastSource(t[2], t[1])))
                      => ast = TightLastProgram(t[2], t[1])
    /\ \A o \in BinaryOperators \ {"Minus", "GreaterEqual"} :
          (Done /\ contents = Written(AssignOperationSource(o)))
             => ast = AssignOperationProgram(o)
    /\ (Done /\ contents = Written(TightLastSource("Plus", "Star")))
          => stdout = << "7" >> /\ stderr = << >>
    /\ (Done /\ contents = Written(GroupSource))
          => stdout = << "9" >> /\ stderr = << >>

\* C23: `print l < r;`, `print l <= r;`, `print l > r;` and `print l >= r;`
\* parse, for numbers l and r, to the print of a Binary node and print true
\* when the comparison holds of l and r and false when it does not.
C23_Comparison ==
    \A l \in Nums, r \in Nums :
       /\ \A o \in Comparisons :
             (Done /\ contents = Written(OperationSource(o, l, r)))
                => /\ ast = << PrintStmt(Binary(Num(l), o, Num(r))) >>
                   /\ stderr = << >>
       /\ (Done /\ contents = Written(OperationSource("Less", l, r)))
             => stdout = << IF l < r THEN "true" ELSE "false" >>
       /\ (Done /\ contents = Written(OperationSource("LessEqual", l, r)))
             => stdout = << IF l <= r THEN "true" ELSE "false" >>
       /\ (Done /\ contents = Written(OperationSource("Greater", l, r)))
             => stdout = << IF l > r THEN "true" ELSE "false" >>
       /\ (Done /\ contents = Written(OperationSource("GreaterEqual", l, r)))
             => stdout = << IF l >= r THEN "true" ELSE "false" >>

\* C24: `print -n;` parses to the print of Unary(-, n) and prints the
\* negation of the number n; `print !v;` parses to the print of Unary(!, v)
\* and prints false when v is truthy and true when it is not, for every
\* number, string, Bool and nil, with no error; `print !!v;` parses to the
\* Unary of a Unary.
C24_Unary ==
    /\ \A n \in Nums :
          (Done /\ contents = Written(NegateSource(n)))
             => /\ ast = << PrintStmt(Unary("Minus", Num(n))) >>
                /\ stdout = << ToString(-n) >>
                /\ stderr = << >>
    /\ \A v \in Lits :
          /\ (Done /\ contents = Written(NotSource(v)))
                => /\ ast = << PrintStmt(Unary("Bang", Literal(v))) >>
                   /\ stdout = << IF Truthy(v) THEN "false" ELSE "true" >>
                   /\ stderr = << >>
          /\ (Done /\ contents = Written(NotNotSource(v)))
                => /\ ast = << PrintStmt(Unary("Bang", Unary("Bang", Literal(v)))) >>
                   /\ stdout = << IF Truthy(v) THEN "true" ELSE "false" >>
                   /\ stderr = << >>

\* C25: `print l + r;`, `print l - r;` and `print l * r;` print the sum, the
\* difference and the product of the numbers l and r; `print l / r;` prints
\* their quotient, or reports DivideByZero and prints nothing when r is 0;
\* `print 5 - 2;` prints 3.
C25_Arithmetic ==
    /\ \A l \in Nums, r \in Nums :
          /\ (Done /\ contents = Written(OperationSource("Plus", l, r)))
                => stdout = << ToString(l + r) >> /\ stderr = << >>
          /\ (Done /\ contents = Written(OperationSource("Minus", l, r)))
                => stdout = << ToString(l - r) >> /\ stderr = << >>
          /\ (Done /\ contents = Written(OperationSource("Star", l, r)))
                => stdout = << ToString(l * r) >> /\ stderr = << >>
          /\ (Done /\ contents = Written(OperationSource("Slash", l, r)))
                => IF r = 0
                   THEN /\ stdout = << >>
                        /\ Len(stderr) = 1
                        /\ stderr[1].kind = "DivideByZero"
                   ELSE /\ stdout = << print_lit(Ratio(l, r)) >>
                        /\ stderr = << >>
    /\ (Done /\ contents = Written(OperationSource("Minus", 5, 2)))
          => stdout = << "3" >> /\ stderr = << >>

\* the same for `+`, `*` and `/` alone
C25_ArithmeticButMinus ==
    \A l \in Nums, r \in Nums :
       /\ (Done /\ contents = Written(OperationSource("Plus", l, r)))
             => stdout = << ToString(l + r) >> /\ stderr = << >>
       /\ (Done /\ contents = Written(OperationSource("Star", l, r)))
             => stdout = << ToString(l * r) >> /\ stderr = << >>
       /\ (Done /\ contents = Written(OperationSource("Slash", l, r)))
             => IF r = 0
                THEN /\ stdout = << >>
                     /\ Len(stderr) = 1
                     /\ stderr[1].kind = "DivideByZero"
                ELSE /\ stdout = << print_lit(Ratio(l, r)) >>
                     /\ stderr = << >>

\* C26: `target = n;` with a literal, a grouping, a binary expression or a
\* call as the target fails to parse with the one error
\* InvalidAssignmentTarget; `x = n;` parses to the assignment to x.
C26_AssignmentTarget ==
    \A n \in Nums :
       /\ \A t \in Targets :
             (Done /\ contents = Written(TargetSource(t, n)))
                => /\ ast = << >>
                   /\ Len(stderr) = 1
                   /\ stderr[1].kind = "InvalidAssignmentTarget"
       /\ (Done /\ contents = Written(TargetSource(<< "x" >>, n)))
             => ast = << Expression(Assign("x", Num(n))) >>

\* C28: with a defined, `print a = n; print a;` parses, prints n and leaves
\* n in a; `var b = a = n; print a; print b;` parses and leaves n in a and
\* in b.
C28_AssignmentAsValue ==
    \A n \in Nums :
       /\ (Done /\ contents = Written(PrintAssignSource(n)))
             => /\ ast = PrintAssignProgram(n)
                /\ stdout = << ToString(n), ToString(n) >>
                /\ stderr = << >>
       /\ (Done /\ contents = Written(VarAssignSource(n)))
             => /\ ast = VarAssignProgram(n)
                /\ stdout = << ToString(n), ToString(n) >>
                /\ stderr = << >>

\* C29: `fun f() { print n; return; print "after"; } f();` parses to a
\* function whose body has the Return statement between the two prints, and
\* the call prints n and not "after".
C29_BareReturn ==
    \A n \in Nums :
       (Done /\ contents = Written(BareReturnSource(n)))
          => /\ Len(ast) = 2
             /\ ast[1].type = "Function"
             /\ Len(ast[1].body) = 3
             /\ ast[1].body[2].type = "Return"
             /\ \A i \in DOMAIN stdout : stdout[i] # "after"
             /\ Len(stdout) >= 1 /\ stdout[1] = ToString(n)

\* C30: a call writes what the print statements of the body write and
\* nothing else: `fun f() { print n; } f();` writes n alone, and the call of
\* a function with an empty body, or with a body that ends without a return,
\* writes nothing and gives nil, so that `print f();` writes nil alone.
C30_CallsWriteNothing ==
    /\ \A n \in Nums :
          /\ (Done /\ contents = Written(PrintingBodySource(n)))
                => stdout = << ToString(n) >> /\ stderr = << >>
          /\ (Done /\ contents = Written(NoReturnSource(n)))
                => stdout = << "nil" >> /\ stderr = << >>
    /\ (Done /\ contents = Written(EmptyBodySource))
          => stdout = << "nil" >> /\ stderr = << >>

====
